---- MODULE Spec2Model ----
(***************************************************************************)
(* Model of the SOLAR portal analysis pipeline (solar_portal/utils):      *)
(* DataLoader (data_loader.py), DataValidator (validators.py),            *)
(* CloudClassifier (classifiers.py) and DataProcessor (processors.py).    *)
(*                                                                         *)
(* Numbers.  Measurements are integers.  Thresholds are held in           *)
(* hundredths (0.70 is 70).  The classifier adds 1e-6 to a median, so     *)
(* every quantity derived from a power ratio is an exact multiple of      *)
(* 1e-6; such a quantity is held as a two-limb number <<hi, lo>> that     *)
(* stands for hi * 10^6 + lo with 0 <= lo < 10^6, and a quotient is held  *)
(* as an exact fraction of two such numbers.  For the values used here    *)
(* no comparison of the program is closer than 1e-9 to a tie, so the      *)
(* exact arithmetic decides every comparison as the floats do.            *)
(***************************************************************************)
EXTENDS Integers, Sequences, FiniteSets, TLC

VARIABLES
    df,             \* the measurement frame held by the caller (loader output)
    validator,      \* the DataValidator object: its three fields
    v_input,        \* the frame passed to the latest validate_all call
    v_result,       \* outcome of the latest validate_all call
    v_calls,        \* number of validate_all calls made on the validator
    req_threshold,  \* threshold argument given to CloudClassifier(...)
    classifier,     \* the CloudClassifier object: its four fields
    first_classify, \* the table the first classify() call returned
    classify_calls, \* number of classify() calls made on the classifier
    recomputed,     \* "after": compute_hourly_medians() ran after a classify();
                    \* "between": and classify() ran again after that
    summary,        \* outcome of the latest get_classification_summary call
    got,            \* the table the latest get_classifications call returned
    loader,         \* the DataLoader object: its data field
    l_file,         \* the file named in the latest load_csv call
    l_result,       \* outcome of the latest load_csv or get_data call
    l_calls,        \* number of load_csv calls made on the loader
    l_loaded,       \* the frame the latest successful load_csv produced, as
                    \* it was when loaded
    held,           \* the frame object the caller got from the latest
                    \* returning loader call
    processor,      \* the DataProcessor object: its three fields
    p_hourly,       \* the hourly table the latest compute_daily_aggregations
                    \* call aggregated
    classifiers,    \* the CloudClassifier objects of a caller that holds two
    processors,     \* the DataProcessor objects of a caller that holds two
    stage_args,     \* the threshold argument each of the two classifiers
                    \* was built with
    temp_upload,    \* the file temp_upload.csv of the working directory
    uploaded,       \* the file each session's user selected in the uploader
    app_pc,         \* where each session's run of main() stands
    session_state,  \* st.session_state of each session
    app_run,        \* what the current run of each session did so far
    app_runs        \* number of runs of main() each session started

vars == <<df, validator, v_input, v_result, v_calls,
          req_threshold, classifier, first_classify, classify_calls,
          recomputed, summary, got, loader, l_file, l_result, l_calls, l_loaded, held,
          processor, p_hourly, classifiers, processors, stage_args,
          temp_upload, uploaded, app_pc, session_state, app_run, app_runs>>

validator_vars == <<validator, v_input, v_result, v_calls>>

classifier_vars ==
    <<req_threshold, classifier, first_classify, classify_calls, recomputed, summary,
      got>>

loader_vars == <<loader, l_file, l_result, l_calls, l_loaded, held>>

processor_vars == <<processor, p_hourly>>

stage_vars == <<classifiers, processors, stage_args>>

app_vars == <<temp_upload, uploaded, app_pc, session_state, app_run, app_runs>>

----------------------------------------------------------------------------
(* Bounds of the model. *)

\* longest frame given to the validator
MaxRowsV == 2

\* longest generated frame given to the classifier
MaxRowsC == 3

\* validate_all calls on one validator
MaxValidateCalls == 2

\* classify() calls on one classifier
MaxClassifyCalls == 2

\* load_csv calls on one loader
MaxLoadCalls == 2

\* longest generated frame given to the processor
MaxRowsP == 2

\* longest hourly table a caller passes to compute_daily_aggregations
MaxHourlyRows == 2

\* runs of main() a session starts
MaxAppRuns == 1

----------------------------------------------------------------------------
(* Program constants. *)

\* PANEL_SPECS["rated_power_W"]
rated_power_W == 48

\* ANALYSIS_DEFAULTS["min_upload_rows"]
min_upload_rows == 100

\* ANALYSIS_DEFAULTS["max_file_size_mb"]
max_file_size_mb == 100

\* bytes in a megabyte: the 1024 * 1024 of load_csv
BytesPerMb == 1048576

\* ANALYSIS_DEFAULTS["clear_sky_threshold"], in hundredths
clear_sky_threshold == 70

\* PANEL_SPECS["voc_V"] = 58.9, in tenths of a volt
voc_V_tenths == 589

\* lower and upper clamp of the threshold, 0.5 and 0.9, in hundredths
ThresholdMin == 50

ThresholdMax == 90

\* the 1e-6 added to the median is one unit of 10^-6
Micro == 1000000

\* columns of a loaded frame: the five required ones, date and hour
NumColumns == 7

\* VALID_RANGES, in evaluation (dict) order
RangeColumns == <<"voltage_V", "current_A", "power_W", "temperature_C">>

VALID_RANGES ==
    [c \in {"voltage_V", "current_A", "power_W", "temperature_C"} |->
        CASE c = "voltage_V"     -> <<0, 100>>
          [] c = "current_A"     -> <<0, 10>>
          [] c = "power_W"       -> <<0, 500>>
          [] c = "temperature_C" -> <<-20, 80>>]

\* numeric_cols of _check_data_types, in loop order
numeric_cols == <<"voltage_V", "current_A", "power_W", "temperature_C">>

----------------------------------------------------------------------------
(* Cells and rows of a frame. *)

\* a numeric cell
Num(x) == [k |-> "num", v |-> x]

\* a missing cell (NaN after read_csv)
NaN == [k |-> "nan", v |-> 0]

\* a cell holding text that is not a number (object dtype after read_csv)
Str == [k |-> "str", v |-> 0]

IsNum(c) == c.k = "num"

IsNull(c) == c.k = "nan"

IsStr(c) == c.k = "str"

\* a row of the frame load_csv returns; ts is in minutes, date and hour are
\* derived from it as load_csv does (dt.date, dt.hour)
MkRow(ts, v, i, p, t) ==
    [timestamp |-> ts, voltage_V |-> v, current_A |-> i, power_W |-> p,
     temperature_C |-> t, date |-> ts \div 1440, hour |-> (ts \div 60) % 24]

SeqSum(s) ==
    LET F[n \in 0..Len(s)] == IF n = 0 THEN 0 ELSE F[n - 1] + s[n]
    IN F[Len(s)]

----------------------------------------------------------------------------
(* DataValidator (validators.py). *)

\* DataValidator.__init__: the fields of a fresh validator
DataValidator_init ==
    [validation_errors |-> <<>>, validation_warnings |-> <<>>, outliers |-> <<>>]

\* one entry of the errors or warnings list: what the message says
Msg(kind, col, n) == [kind |-> kind, col |-> col, n |-> n]

\* a comparison df[col] < x or df[col] > x raises TypeError iff the column
\* holds text
ColumnHasStr(d, col) == \E i \in 1..Len(d) : IsStr(d[i][col])

\* _check_data_types: one error per numeric column that holds a value
\* to_numeric cannot coerce
check_data_types(st, d) ==
    LET F[n \in 0..Len(numeric_cols)] ==
            IF n = 0 THEN st.self.validation_errors
            ELSE IF ColumnHasStr(d, numeric_cols[n])
                 THEN Append(F[n - 1], Msg("invalid_data_type", numeric_cols[n], 0))
                 ELSE F[n - 1]
    IN [st EXCEPT !.self.validation_errors = F[Len(numeric_cols)]]

\* row r is outside [lo, hi] in column col; a comparison with NaN is False
OutOfRange(r, col) ==
    /\ IsNum(r[col])
    /\ \/ r[col].v < VALID_RANGES[col][1]
       \/ r[col].v > VALID_RANGES[col][2]

\* _check_value_ranges: per column a warning with the count, and the rows
\* are concatenated to self.outliers; text in a column raises at that column
check_value_ranges(st, d) ==
    LET F[n \in 0..Len(RangeColumns)] ==
            IF n = 0 THEN st
            ELSE LET prev == F[n - 1]
                     col == RangeColumns[n]
                     out_of_range == SelectSeq(d, LAMBDA r : OutOfRange(r, col))
                 IN IF prev.raised THEN prev
                    ELSE IF ColumnHasStr(d, col)
                         THEN [prev EXCEPT !.raised = TRUE]
                    ELSE IF Len(out_of_range) > 0
                         THEN [prev EXCEPT
                                 !.self.validation_warnings =
                                     Append(@, Msg("out_of_range", col, Len(out_of_range))),
                                 !.self.outliers = @ \o out_of_range]
                    ELSE prev
    IN F[Len(RangeColumns)]

\* the integers of sequence s in ascending order (a stable sort)
SortInts(s) ==
    LET Rank(i) == Cardinality({j \in 1..Len(s) :
                        s[j] < s[i] \/ (s[j] = s[i] /\ j < i)}) + 1
    IN [k \in 1..Len(s) |-> s[CHOOSE i \in 1..Len(s) : Rank(i) = k]]

\* the timestamps of d in ascending order (sort_values("timestamp"))
SortedTimestamps(d) == SortInts([i \in 1..Len(d) |-> d[i].timestamp])

\* the largest difference of consecutive sorted timestamps, in minutes;
\* <<>> stands for NaT, the maximum of the empty diff of a one-row frame
MaxGap(d) ==
    LET s == SortedTimestamps(d)
        diffs == {s[k + 1] - s[k] : k \in 1..(Len(d) - 1)}
    IN IF diffs = {} THEN <<>>
       ELSE <<CHOOSE g \in diffs : \A h \in diffs : h <= g>>

\* Series.is_monotonic_increasing: non-decreasing in input order
is_monotonic_increasing(d) ==
    \A i \in 1..(Len(d) - 1) : d[i].timestamp <= d[i + 1].timestamp

\* _check_temporal_integrity
check_temporal_integrity(st, d) ==
    IF st.raised THEN st
    ELSE
    LET w1 == IF ~is_monotonic_increasing(d)
              THEN Append(st.self.validation_warnings, Msg("not_chronological", "timestamp", 0))
              ELSE st.self.validation_warnings
        max_gap == MaxGap(d)
        w2 == IF max_gap = <<>> \/ max_gap[1] > 60
              THEN Append(w1, Msg("large_gap", "timestamp", 0))
              ELSE w1
    IN [st EXCEPT !.self.validation_warnings = w2]

\* power_W > 2 * rated_power
HighPower(r) == IsNum(r.power_W) /\ r.power_W.v > 2 * rated_power_W

\* voltage_V > 1.2 * voc, with voc in tenths: 100 v > 12 * voc_tenths
HighVoltage(r) == IsNum(r.voltage_V) /\ 100 * r.voltage_V.v > 12 * voc_V_tenths

\* _detect_outliers
detect_outliers(st, d) ==
    IF st.raised THEN st
    ELSE IF ColumnHasStr(d, "power_W") THEN [st EXCEPT !.raised = TRUE]
    ELSE
    LET high_power == SelectSeq(d, HighPower)
        s1 == IF Len(high_power) > 0
              THEN [st EXCEPT
                      !.self.validation_warnings =
                          Append(@, Msg("exceeds_rated_power", "power_W", Len(high_power))),
                      !.self.outliers = @ \o high_power]
              ELSE st
        high_voltage == SelectSeq(d, HighVoltage)
    IN IF ColumnHasStr(d, "voltage_V") THEN [s1 EXCEPT !.raised = TRUE]
       ELSE IF Len(high_voltage) > 0
       THEN [s1 EXCEPT
               !.self.validation_warnings =
                   Append(@, Msg("exceeds_voc", "voltage_V", Len(high_voltage))),
               !.self.outliers = @ \o high_voltage]
       ELSE s1

\* df.isnull().sum() summed over the columns: timestamp, date and hour are
\* never null in a frame of this model
NullCells(d) ==
    SeqSum([i \in 1..Len(d) |->
        Cardinality({c \in {"voltage_V", "current_A", "power_W", "temperature_C"} :
                        IsNull(d[i][c])})])

\* _check_missing_data: null_pct is the mean over the columns of
\* nulls / len * 100, so null_pct > x iff 100 * nulls > x * columns * len
check_missing_data(st, d) ==
    IF st.raised THEN st
    ELSE
    LET nulls == NullCells(d)
        cells == NumColumns * Len(d)
    IN IF 100 * nulls > 20 * cells
       THEN [st EXCEPT !.self.validation_errors =
                          Append(@, Msg("missing_data_poor", "", nulls))]
       ELSE IF 100 * nulls > 5 * cells
       THEN [st EXCEPT !.self.validation_warnings =
                          Append(@, Msg("missing_data_some", "", nulls))]
       ELSE st

\* outcome of a call that has not been made
NoResult ==
    [status |-> "none", is_valid |-> FALSE, errors |-> <<>>, warnings |-> <<>>,
     total_rows |-> 0, invalid_rows |-> 0, data_quality |-> <<0, 1>>]

\* (1 - invalid / total) * 100 as the exact fraction <<numerator, denominator>>
DataQuality(invalid, total) == <<100 * (total - invalid), total>>

\* validate_all_outcome with is_valid also requiring an empty warnings list
validate_all_outcome_strict(st, d) ==
    IF st.raised
    THEN [status |-> "raised", is_valid |-> FALSE,
          errors |-> st.self.validation_errors,
          warnings |-> st.self.validation_warnings,
          total_rows |-> 0, invalid_rows |-> 0, data_quality |-> <<0, 1>>]
    ELSE [status     |-> "returned",
          is_valid   |-> Len(st.self.validation_errors) = 0
                         /\ Len(st.self.validation_warnings) = 0,
          errors     |-> st.self.validation_errors,
          warnings   |-> st.self.validation_warnings,
          total_rows |-> Len(d),
          invalid_rows |-> Len(st.self.outliers),
          data_quality |-> <<100 * (Len(d) - Len(st.self.outliers)), Len(d)>>]

\* what validate_all hands back given the state its checks left: the tuple
\* (is_valid, report), or the exception that escaped
validate_all_outcome(st, d) ==
    IF st.raised
    THEN [NoResult EXCEPT !.status = "raised",
                          !.errors = st.self.validation_errors,
                          !.warnings = st.self.validation_warnings]
    ELSE [status     |-> "returned",
          is_valid   |-> Len(st.self.validation_errors) = 0,
          errors     |-> st.self.validation_errors,
          warnings   |-> st.self.validation_warnings,
          total_rows |-> Len(d),
          invalid_rows |-> Len(st.self.outliers),
          data_quality |-> DataQuality(Len(st.self.outliers), Len(d))]

\* the body of validate_all up to the report: the two lists are reset (the
\* outliers are not), then the five checks run in order
validate_all_run(self, d) ==
    LET s0 == [self |-> [self EXCEPT !.validation_errors = <<>>,
                                     !.validation_warnings = <<>>],
               raised |-> FALSE]
        s1 == check_data_types(s0, d)
        s2 == check_value_ranges(s1, d)
        s3 == check_temporal_integrity(s2, d)
        s4 == detect_outliers(s3, d)
    IN check_missing_data(s4, d)

----------------------------------------------------------------------------
(* Exact arithmetic on multiples of 1e-6. *)

\* <<hi, lo>> for hi * 10^6 + lo, brought to 0 <= lo < 10^6
LNorm(hi, lo) == <<hi + (lo \div Micro), lo % Micro>>

LScale(k, a) == LNorm(k * a[1], k * a[2])

LSub(a, b) == LNorm(a[1] - b[1], a[2] - b[2])

LLe(a, b) == a[1] < b[1] \/ (a[1] = b[1] /\ a[2] <= b[2])

LAbs(a) == IF a[1] < 0 THEN LNorm(-a[1], -a[2]) ELSE a

LZero == <<0, 0>>

\* a float column value: NaN, or the exact quotient num / den with den > 0
FNaN == [nan |-> TRUE, num |-> LZero, den |-> <<0, 1>>]

Frac(num, den) ==
    IF LLe(den, LZero)
    THEN [nan |-> FALSE, num |-> LScale(-1, num), den |-> LScale(-1, den)]
    ELSE [nan |-> FALSE, num |-> num, den |-> den]

\* x >= a / b for integers a and b > 0; False when x is NaN
FracGe(x, a, b) == ~x.nan /\ LLe(LScale(a, x.den), LScale(b, x.num))

\* x < a / b; False when x is NaN
FracLt(x, a, b) == ~x.nan /\ ~LLe(LScale(a, x.den), LScale(b, x.num))

----------------------------------------------------------------------------
(* CloudClassifier (classifiers.py). *)

\* a classifier that has not been built
NoClassifier ==
    [df |-> <<>>, threshold |-> 0, classifications |-> <<>>, hourly_medians |-> <<>>,
     built |-> FALSE, classified |-> FALSE, has_medians |-> FALSE]

\* the clamp with the lower bound forgotten: min(0.9, threshold)
ClampThreshold_upper_only(threshold) ==
    IF ThresholdMax < threshold THEN ThresholdMax ELSE threshold

\* max(0.5, min(0.9, threshold)), in hundredths
ClampThreshold(threshold) ==
    LET lower == IF ThresholdMax < threshold THEN ThresholdMax ELSE threshold
    IN IF ThresholdMin > lower THEN ThresholdMin ELSE lower

\* CloudClassifier.__init__: the fields after construction
CloudClassifier_init(d, threshold) ==
    [df |-> d, threshold |-> ClampThreshold(threshold),
     classifications |-> <<>>, hourly_medians |-> <<>>,
     built |-> TRUE, classified |-> FALSE, has_medians |-> FALSE]

\* the median with the middle index off by one
Median2_off_by_one(cells) ==
    LET present == SelectSeq(cells, IsNum)
        vals == SortInts([i \in 1..Len(present) |-> present[i].v])
        n == Len(vals)
    IN IF n = 0 THEN NaN
       ELSE IF n = 1 THEN Num(2 * vals[1])
       ELSE Num(2 * vals[n \div 2])

\* Series.median() of the power values of one hour group, NaN skipped; the
\* result is in halves of a watt (twice the median), NaN for an all-NaN group
Median2(cells) ==
    LET present == SelectSeq(cells, IsNum)
        vals == SortInts([i \in 1..Len(present) |-> present[i].v])
        n == Len(vals)
    IN IF n = 0 THEN NaN
       ELSE IF n % 2 = 1 THEN Num(2 * vals[(n + 1) \div 2])
       ELSE Num(vals[n \div 2] + vals[(n \div 2) + 1])

\* medians taken over the rows of the first date of d only
hourly_medians_of_first_date(d) ==
    LET present == {d[i].hour : i \in 1..Len(d)}
        hours == [k \in 1..Cardinality(present) |->
                     CHOOSE h \in present : Cardinality({g \in present : g < h}) = k - 1]
        first == CHOOSE x \in {d[i].date : i \in 1..Len(d)} :
                     \A i \in 1..Len(d) : x <= d[i].date
        group(h) == SelectSeq(d, LAMBDA r : r.hour = h /\ r.date = first)
    IN [k \in 1..Len(hours) |->
          [hour |-> hours[k],
           median_power_W |->
               Median2([j \in 1..Len(group(hours[k])) |-> group(hours[k])[j].power_W])]]

\* df.groupby("hour")["power_W"].median().reset_index(): one row per hour
\* present, hours ascending
hourly_medians_of(d) ==
    LET present == {d[i].hour : i \in 1..Len(d)}
        hours == [k \in 1..Cardinality(present) |->
                     CHOOSE h \in present : Cardinality({g \in present : g < h}) = k - 1]
        group(h) == SelectSeq(d, LAMBDA r : r.hour = h)
    IN [k \in 1..Len(hours) |->
          [hour |-> hours[k],
           median_power_W |->
               Median2([j \in 1..Len(group(hours[k])) |-> group(hours[k])[j].power_W])]]

\* the median joined to a row by the left merge on "hour"; NaN when the
\* medians table has no row for the hour
MedianFor(medians, hour) ==
    IF \E k \in 1..Len(medians) : medians[k].hour = hour
    THEN medians[CHOOSE k \in 1..Len(medians) : medians[k].hour = hour].median_power_W
    ELSE NaN

\* the quotient without the epsilon: 0 / 0 is NaN
power_ratio_no_epsilon(power, median2) ==
    IF ~IsNum(power) \/ ~IsNum(median2) \/ median2.v = 0 THEN FNaN
    ELSE Frac(<<2 * power.v, 0>>, <<median2.v, 0>>)

\* power_W / (median_power_W + 1e-6), the median given in halves:
\* 2 p 10^6 / (m2 10^6 + 2)
power_ratio(power, median2) ==
    IF ~IsNum(power) \/ ~IsNum(median2) THEN FNaN
    ELSE Frac(<<2 * power.v, 0>>, <<median2.v, 2>>)

\* the MARGINAL mask without its upper bound: it overwrites CLEAR
classification_overlap(ratio, threshold) ==
    IF FracGe(ratio, threshold, 200) THEN "MARGINAL" ELSE "CLOUDY"

\* no default label: CLOUDY is assigned by a mask ratio < 0.5 * threshold
classification_no_default(ratio, threshold) ==
    IF FracGe(ratio, threshold, 100) THEN "CLEAR"
    ELSE IF FracGe(ratio, threshold, 200) THEN "MARGINAL"
    ELSE IF FracLt(ratio, threshold, 200) THEN "CLOUDY"
    ELSE "NONE"

\* the three assignments to the "classification" column, in order
classification(ratio, threshold) ==
    LET default == "CLOUDY"
        clear == IF FracGe(ratio, threshold, 100) THEN "CLEAR" ELSE default
    IN IF FracGe(ratio, threshold, 200) /\ FracLt(ratio, threshold, 100)
       THEN "MARGINAL" ELSE clear

\* Series.clip(0, 1): NaN stays NaN
clip01(x) ==
    IF x.nan THEN x
    ELSE IF LLe(x.num, LZero) THEN [x EXCEPT !.num = LZero]
    ELSE IF LLe(x.den, x.num) THEN [x EXCEPT !.num = x.den]
    ELSE x

\* 1 - |ratio - threshold|, the distance not scaled
raw_confidence_unscaled(ratio, threshold) ==
    LET dist == LAbs(LSub(LScale(100, ratio.num), LScale(threshold, ratio.den)))
    IN IF ratio.nan THEN FNaN
       ELSE Frac(LSub(LScale(100, ratio.den), dist), LScale(100, ratio.den))

\* 1 - |ratio - threshold| / max(threshold, 1 - threshold), before the clip
raw_confidence(ratio, threshold) ==
    LET widest == IF threshold >= 100 - threshold THEN threshold ELSE 100 - threshold
        dist == LAbs(LSub(LScale(100, ratio.num), LScale(threshold, ratio.den)))
    IN IF ratio.nan THEN FNaN
       ELSE Frac(LSub(LScale(widest, ratio.den), dist), LScale(widest, ratio.den))

confidence(ratio, threshold) == clip01(raw_confidence(ratio, threshold))

\* the table classify builds from self.df, the medians and the threshold
classify_table(d, medians, threshold) ==
    [i \in 1..Len(d) |->
        LET m == MedianFor(medians, d[i].hour)
            ratio == power_ratio(d[i].power_W, m)
        IN [timestamp |-> d[i].timestamp, voltage_V |-> d[i].voltage_V,
            current_A |-> d[i].current_A, power_W |-> d[i].power_W,
            temperature_C |-> d[i].temperature_C, date |-> d[i].date,
            hour |-> d[i].hour, median_power_W |-> m, power_ratio |-> ratio,
            classification |-> classification(ratio, threshold),
            confidence |-> confidence(ratio, threshold)]]

\* self after compute_hourly_medians()
with_medians(self) ==
    [self EXCEPT !.hourly_medians = hourly_medians_of(self.df), !.has_medians = TRUE]

\* classify() that then rebuilds the cached medians from the CLEAR rows only
with_classifications_rebase(self) ==
    LET s1 == IF self.has_medians THEN self
              ELSE [self EXCEPT !.hourly_medians = hourly_medians_of(self.df),
                                !.has_medians = TRUE]
        table == classify_table(s1.df, s1.hourly_medians, s1.threshold)
    IN [s1 EXCEPT !.classifications = table,
                  !.classified = TRUE,
                  !.hourly_medians =
                      hourly_medians_of(SelectSeq(table,
                          LAMBDA r : r.classification = "CLEAR"))]

\* self after classify()
with_classifications(self) ==
    LET s1 == IF self.has_medians THEN self ELSE with_medians(self)
    IN [s1 EXCEPT !.classifications =
                      classify_table(s1.df, s1.hourly_medians, s1.threshold),
                  !.classified = TRUE]

\* the guard left out: classify() is not run when no table is cached
classified_if_absent_skipped(self) == self

\* if self.classifications is None: self.classify()
classified_if_absent(self) ==
    IF self.classified THEN self ELSE with_classifications(self)

NoSummary ==
    [status |-> "none", total |-> 0, clear_count |-> 0, marginal_count |-> 0,
     cloudy_count |-> 0, clear_pct |-> <<0, 1>>, marginal_pct |-> <<0, 1>>,
     cloudy_pct |-> <<0, 1>>]

\* value_counts().get(label, 0)
CountLabel(table, label) ==
    Cardinality({i \in 1..Len(table) : table[i].classification = label})

\* count / total * 100 as the exact fraction <<numerator, denominator>>
Pct(count, total) == <<count * 100, total>>

\* the dictionary get_classification_summary returns for a classified table
summary_of(table) ==
    LET total == Len(table)
    IN [status |-> "returned", total |-> total,
        clear_count |-> CountLabel(table, "CLEAR"),
        clear_pct |-> Pct(CountLabel(table, "CLEAR"), total),
        marginal_count |-> CountLabel(table, "MARGINAL"),
        marginal_pct |-> Pct(CountLabel(table, "MARGINAL"), total),
        cloudy_count |-> CountLabel(table, "CLOUDY"),
        cloudy_pct |-> Pct(CountLabel(table, "CLOUDY"), total)]

----------------------------------------------------------------------------
(* DataLoader (data_loader.py).                                            *)
(*                                                                         *)
(* A file is held as what load_csv observes of it: whether the path        *)
(* exists, its size in bytes, whether pd.read_csv parses it, and the       *)
(* parsed header and rows.  A timestamp cell is the text of the file: a    *)
(* day number, an hour and a minute, or text pd.to_datetime rejects.       *)

\* DataLoader.REQUIRED_COLUMNS
REQUIRED_COLUMNS == <<"timestamp", "voltage_V", "current_A", "power_W", "temperature_C">>

\* the columns of a frame load_csv returns: the required five, then the
\* two it derives
LoadedColumns == REQUIRED_COLUMNS \o <<"date", "hour">>

ColumnSet(cols) == {cols[k] : k \in 1..Len(cols)}

\* self.data = None
NoData == [columns |-> <<>>, rows |-> <<>>]

\* DataLoader.__init__
DataLoader_init == [data |-> NoData]

\* timestamp text "day d, hh:mm", and text that is no timestamp
TsText(d, hh, mm) == [ok |-> TRUE, d |-> d, hh |-> hh, mm |-> mm]

BadTs == [ok |-> FALSE, d |-> 0, hh |-> 0, mm |-> 0]

\* pd.to_datetime on one cell: minutes since day 0, 00:00
to_datetime(t) == t.d * 1440 + t.hh * 60 + t.mm

\* outcome of a DataLoader call
NoLoad ==
    [op |-> "none", status |-> "none", kind |-> "", key |-> "",
     missing |-> <<>>, frame |-> NoData]

\* the exception class a raise statement of load_csv uses for the
\* ERROR_MESSAGES key (read_error: the "Error reading CSV" message)
error_kind_by_condition(key) ==
    CASE key = "file_not_found" -> "FileNotFoundError"
      [] key = "no_data_loaded" -> "RuntimeError"
      [] key = "file_too_large" -> "TooLargeError"
      [] key = "empty_file" -> "EmptyError"
      [] OTHER -> "ParseError"

error_kind(key) ==
    CASE key = "file_not_found" -> "FileNotFoundError"
      [] key = "no_data_loaded" -> "RuntimeError"
      [] OTHER -> "ValueError"

Raised(op, key, missing) ==
    [op |-> op, status |-> "raised", kind |-> error_kind(key), key |-> key,
     missing |-> missing, frame |-> NoData]

Returned(op, frame) ==
    [op |-> op, status |-> "returned", kind |-> "", key |-> "",
     missing |-> <<>>, frame |-> frame]

\* file_size_mb > ANALYSIS_DEFAULTS["max_file_size_mb"]
file_too_large(f) == f.size > max_file_size_mb * BytesPerMb

too_few_rows_inclusive(raw) == Len(raw.rows) <= min_upload_rows

\* len(df) < ANALYSIS_DEFAULTS["min_upload_rows"]
too_few_rows(raw) == Len(raw.rows) < min_upload_rows

\* [col for col in self.REQUIRED_COLUMNS if col not in df.columns]
missing_cols(raw) ==
    SelectSeq(REQUIRED_COLUMNS, LAMBDA c : c \notin ColumnSet(raw.columns))

\* pd.to_datetime(df["timestamp"]) raises when a cell is no timestamp
timestamps_parse(raw) == \A i \in 1..Len(raw.rows) : raw.rows[i]["timestamp"].ok

\* df[self.REQUIRED_COLUMNS], the parsed timestamp, and the derived date
\* and hour
parsed_frame(raw) ==
    [columns |-> LoadedColumns,
     rows |-> [i \in 1..Len(raw.rows) |->
                  LET r == raw.rows[i]
                  IN MkRow(to_datetime(r["timestamp"]), r["voltage_V"],
                           r["current_A"], r["power_W"], r["temperature_C"])]]

\* load_csv up to its return or raise
load_csv_outcome(f) ==
    IF ~f.exists THEN Raised("load_csv", "file_not_found", <<>>)
    ELSE IF file_too_large(f) THEN Raised("load_csv", "file_too_large", <<>>)
    ELSE IF ~f.parseable THEN Raised("load_csv", "read_error", <<>>)
    ELSE IF too_few_rows(f) THEN Raised("load_csv", "empty_file", <<>>)
    ELSE IF missing_cols(f) # <<>>
         THEN Raised("load_csv", "missing_columns", missing_cols(f))
    ELSE IF ~timestamps_parse(f) THEN Raised("load_csv", "invalid_timestamp", <<>>)
    ELSE Returned("load_csv", parsed_frame(f))

\* the frame object a caller holds: obj tells whether it is the object the
\* loader keeps in self.data ("loader": load_csv returns self.data itself)
\* or an object of its own ("copy": get_data returns self.data.copy())
NotHeld == [obj |-> "none", frame |-> NoData, edited |-> FALSE]

HeldObject(obj, frame) == [obj |-> obj, frame |-> frame, edited |-> FALSE]

\* an in-place change a caller makes to a frame it holds:
\* df.loc[0, "power_W"] = 999
caller_edit(frame) == [frame EXCEPT !.rows[1].power_W = Num(999)]

\* get_data up to its return or raise
get_data_outcome(self) ==
    IF self.data = NoData THEN Raised("get_data", "no_data_loaded", <<>>)
    ELSE Returned("get_data", self.data)

----------------------------------------------------------------------------
(* Files given to the loader. *)

\* headers: the required columns; with an extra column; in another order
\* with an extra column; without power_W; the two-column header of
\* test_load_csv_missing_columns
Headers ==
    { REQUIRED_COLUMNS,
      REQUIRED_COLUMNS \o <<"notes">>,
      <<"power_W", "notes", "timestamp", "voltage_V", "current_A", "temperature_C">>,
      <<"timestamp", "voltage_V", "current_A", "temperature_C">>,
      <<"timestamp", "voltage_V">> }

\* row counts: those of the test files (1 and 3) and those around the
\* minimum
RowCounts == {1, 3, min_upload_rows - 1, min_upload_rows, min_upload_rows + 1}

\* row i of a file of n rows: one measurement per hour from day 0, 00:30;
\* when ts_ok is false the last row's timestamp is no timestamp
FileRow(header, i, n, ts_ok) ==
    [c \in ColumnSet(header) |->
        CASE c = "timestamp" ->
                 IF ~ts_ok /\ i = n THEN BadTs
                 ELSE TsText((i - 1) \div 24, (i - 1) % 24, 30)
          [] c = "voltage_V" -> Num(30)
          [] c = "current_A" -> Num(1)
          [] c = "power_W" -> Num(i % 7)
          [] c = "temperature_C" -> Num(25)
          [] OTHER -> Str]

MkFile(exists, size, parseable, header, n, ts_ok) ==
    [exists |-> exists, size |-> size, parseable |-> parseable,
     columns |-> header,
     rows |-> [i \in 1..n |-> FileRow(header, i, n, ts_ok)]]

NoFile == MkFile(FALSE, 0, FALSE, <<>>, 0, TRUE)

\* small readable files of every header and row count; files at and above
\* the size ceiling; files read_csv rejects; a path that does not exist
Files ==
    {MkFile(TRUE, 1024, TRUE, h, n, t) : h \in Headers, n \in RowCounts, t \in BOOLEAN}
    \cup {MkFile(TRUE, s, TRUE, REQUIRED_COLUMNS, n, TRUE) :
              s \in {max_file_size_mb * BytesPerMb, max_file_size_mb * BytesPerMb + 1},
              n \in {3, min_upload_rows}}
    \cup {MkFile(TRUE, s, FALSE, <<>>, 0, TRUE) :
              s \in {1024, max_file_size_mb * BytesPerMb + 1}}
    \cup {NoFile}

----------------------------------------------------------------------------
(* DataProcessor (processors.py).                                          *)
(*                                                                         *)
(* An aggregate is an exact fraction [nan, n, d] in lowest terms with      *)
(* d > 0, or NaN.  The sample standard deviation is held by its square.    *)

QNorm(n, d) ==
    LET g == CHOOSE k \in 1..d :
                 /\ n % k = 0 /\ d % k = 0
                 /\ \A j \in (k + 1)..d : ~(n % j = 0 /\ d % j = 0)
    IN [nan |-> FALSE, n |-> n \div g, d |-> d \div g]

QNaN == [nan |-> TRUE, n |-> 0, d |-> 1]

QInt(x) == [nan |-> FALSE, n |-> x, d |-> 1]

\* a cell of a numeric column as an aggregate operand
QOfCell(c) == IF IsNum(c) THEN QInt(c.v) ELSE QNaN

QAdd(a, b) == QNorm(a.n * b.d + b.n * a.d, a.d * b.d)

QSub(a, b) == QNorm(a.n * b.d - b.n * a.d, a.d * b.d)

QMul(a, b) == IF a.nan \/ b.nan THEN QNaN ELSE QNorm(a.n * b.n, a.d * b.d)

QDivInt(a, k) == QNorm(a.n, a.d * k)

QLe(a, b) == a.n * b.d <= b.n * a.d

\* the operands of s that are not NaN (pandas aggregations skip NaN)
NonNaN(s) == SelectSeq(s, LAMBDA q : ~q.nan)

QSumSeq(s) ==
    LET F[k \in 0..Len(s)] == IF k = 0 THEN QInt(0) ELSE QAdd(F[k - 1], s[k])
    IN F[Len(s)]

\* "mean": NaN when no operand is left
agg_mean(s) ==
    LET t == NonNaN(s)
    IN IF t = <<>> THEN QNaN ELSE QDivInt(QSumSeq(t), Len(t))

\* "max"
agg_max(s) ==
    LET t == NonNaN(s)
    IN IF t = <<>> THEN QNaN
       ELSE t[CHOOSE i \in 1..Len(t) : \A j \in 1..Len(t) : QLe(t[j], t[i])]

\* "std" (ddof = 1), squared: NaN for fewer than two operands
agg_std_squared(s) ==
    LET t == NonNaN(s)
        m == agg_mean(s)
        sq == [k \in 1..Len(t) |-> QMul(QSub(t[k], m), QSub(t[k], m))]
    IN IF Len(t) < 2 THEN QNaN ELSE QDivInt(QSumSeq(sq), Len(t) - 1)

\* "nunique" in place of "count": the distinct operands that are not NaN
agg_count_distinct(s) == Cardinality({NonNaN(s)[k] : k \in 1..Len(NonNaN(s))})

\* "count": the operands that are not NaN
agg_count(s) == Len(NonNaN(s))

\* a summary the processor has not computed (None), and one it has
NoTable == [set |-> FALSE, rows |-> <<>>]

TableOf(rows) == [set |-> TRUE, rows |-> rows]

\* DataProcessor.__init__
DataProcessor_init(d) == [df |-> d, hourly_summary |-> NoTable, daily_summary |-> NoTable]

\* group keys in descending order
SortedKeys_descending(keys) ==
    [k \in 1..Cardinality(keys) |->
        CHOOSE x \in keys : Cardinality({y \in keys : y > x}) = k - 1]

\* the group keys of a groupby in ascending order
SortedKeys(keys) ==
    [k \in 1..Cardinality(keys) |->
        CHOOSE x \in keys : Cardinality({y \in keys : y < x}) = k - 1]

\* self.df.groupby(["date", "hour"]).agg({...}).reset_index() with the
\* flattened column names
hourly_of(d) ==
    LET keys == SortedKeys({d[i].date * 24 + d[i].hour : i \in 1..Len(d)})
        group(s) == SelectSeq(d, LAMBDA r : r.date * 24 + r.hour = s)
        col(s, c) == [j \in 1..Len(group(s)) |-> QOfCell(group(s)[j][c])]
    IN [k \in 1..Len(keys) |->
          [date |-> keys[k] \div 24,
           hour |-> keys[k] % 24,
           avg_power_W |-> agg_mean(col(keys[k], "power_W")),
           std_power_W |-> agg_std_squared(col(keys[k], "power_W")),
           count_measurements |-> agg_count(col(keys[k], "power_W")),
           avg_voltage_V |-> agg_mean(col(keys[k], "voltage_V")),
           avg_current_A |-> agg_mean(col(keys[k], "current_A")),
           avg_temperature_C |-> agg_mean(col(keys[k], "temperature_C"))]]

daily_avg_power_weighted(g) ==
    LET w == [j \in 1..Len(g) |-> QMul(g[j].avg_power_W, QInt(g[j].count_measurements))]
        n == SeqSum([j \in 1..Len(g) |-> g[j].count_measurements])
    IN IF NonNaN(w) = <<>> \/ n = 0 THEN QNaN ELSE QDivInt(QSumSeq(NonNaN(w)), n)

\* "avg_power_W": "mean" over the hourly rows g of one date
daily_avg_power(g) == agg_mean([j \in 1..Len(g) |-> g[j].avg_power_W])

\* hourly.groupby("date").agg({...}).reset_index(), the flattened column
\* names, and energy_Wh
daily_of(hourly) ==
    LET dates == SortedKeys({hourly[i].date : i \in 1..Len(hourly)})
        group(x) == SelectSeq(hourly, LAMBDA r : r.date = x)
    IN [k \in 1..Len(dates) |->
          LET g == group(dates[k])
              hours == SeqSum([j \in 1..Len(g) |-> g[j].count_measurements])
          IN [date |-> dates[k],
              peak_power_W |-> agg_max([j \in 1..Len(g) |-> g[j].avg_power_W]),
              avg_power_W |-> daily_avg_power(g),
              hours_measured |-> hours,
              temp_avg_C |-> agg_mean([j \in 1..Len(g) |-> g[j].avg_temperature_C]),
              energy_Wh |-> QMul(daily_avg_power(g), QInt(hours))]]

\* the state of every component before its first operation
ValidatorIdle ==
    /\ validator = DataValidator_init
    /\ v_input = <<>>
    /\ v_result = NoResult
    /\ v_calls = 0

ClassifierIdle ==
    /\ req_threshold = 0
    /\ classifier = NoClassifier
    /\ first_classify = <<>>
    /\ classify_calls = 0
    /\ recomputed = "none"
    /\ summary = NoSummary
    /\ got = <<>>

LoaderIdle ==
    /\ loader = DataLoader_init
    /\ l_file = NoFile
    /\ l_result = NoLoad
    /\ l_calls = 0
    /\ l_loaded = NoData
    /\ held = NotHeld

ProcessorIdle ==
    /\ processor = DataProcessor_init(<<>>)
    /\ p_hourly = <<>>

\* the two objects a caller of several analyses holds of each class
Instances == {1, 2}

StagesIdle ==
    /\ classifiers = [i \in Instances |-> NoClassifier]
    /\ processors = [i \in Instances |-> DataProcessor_init(<<>>)]
    /\ stage_args = [i \in Instances |-> 0]

\* the browser sessions served by the one process
Sessions == {1, 2}

\* st.session_state as the module initialises it
SessionInit ==
    [data_loaded |-> FALSE, df |-> NoData, df_validated |-> <<>>,
     df_classified |-> NoTable, hourly_summary |-> NoTable, daily_summary |-> NoTable,
     classification_summary |-> NoSummary]

\* a run of main() that has done nothing yet
NoRun ==
    [read |-> FALSE, file |-> NoFile, load_ok |-> FALSE, validated |-> FALSE,
     is_valid |-> FALSE, analysed |-> FALSE, visualised |-> FALSE, exported |-> FALSE]

AppIdle ==
    /\ temp_upload = NoFile
    /\ uploaded = [s \in Sessions |-> NoFile]
    /\ app_pc = [s \in Sessions |-> "idle"]
    /\ session_state = [s \in Sessions |-> SessionInit]
    /\ app_run = [s \in Sessions |-> NoRun]
    /\ app_runs = [s \in Sessions |-> 0]

----------------------------------------------------------------------------
(* Frames given to the validator.  load_csv accepts no frame with fewer    *)
(* than min_upload_rows rows, so a frame is never empty; it does not check *)
(* the numeric columns, so a cell may be missing or hold text.             *)

\* timestamp of the n-th row of a generated frame: hourly from 07:00
HourlyTs(n) == 420 + 60 * (n - 1)

\* the row kinds: the nominal row and rows that break the rules
ValidatorRowKinds ==
    { <<Num(30), Num(1), Num(10), Num(25)>>,    \* within every range
      <<Num(80), Num(1), Num(10), Num(25)>>,    \* above 1.2 x Voc only
      <<Num(101), Num(1), Num(10), Num(25)>>,   \* above range and 1.2 x Voc
      <<NaN, Num(1), Num(10), Num(25)>>,
      <<Str, Num(1), Num(10), Num(25)>>,
      <<Num(30), Num(11), Num(10), Num(25)>>,   \* current above range
      <<Num(30), Num(1), Num(100), Num(25)>>,   \* above 2 x rated only
      <<Num(30), Num(1), Num(600), Num(25)>>,   \* above range and 2 x rated
      <<Num(30), Num(1), NaN, Num(25)>>,
      <<NaN, Num(1), NaN, Num(25)>>,
      <<Num(30), Num(1), Num(10), Num(90)>>,    \* temperature above range
      <<Num(30), Num(1), Num(10), Str>> }

KindsToFrame(ks) ==
    [n \in 1..Len(ks) |-> MkRow(HourlyTs(n), ks[n][1], ks[n][2], ks[n][3], ks[n][4])]

ValidatorFrames ==
    UNION { { KindsToFrame(ks) : ks \in [1..n -> ValidatorRowKinds] } : n \in 1..MaxRowsV }

\* two nominal rows at the given timestamps (minutes)
TwoRowsAt(t1, t2) ==
    <<MkRow(t1, Num(30), Num(1), Num(10), Num(25)),
      MkRow(t2, Num(30), Num(1), Num(10), Num(25))>>

\* frames whose timestamps are not hourly: a gap just over one hour, a gap
\* of two hours, reversed order with a gap of one and of two hours, a tie
TemporalFrames ==
    { TwoRowsAt(420, 481), TwoRowsAt(420, 540), TwoRowsAt(480, 420),
      TwoRowsAt(540, 420), TwoRowsAt(420, 420) }

\* frames the caller may validate besides df
OtherFrames ==
    { KindsToFrame(<< <<Num(30), Num(1), Num(10), Num(25)>> >>),
      KindsToFrame(<< <<Num(30), Num(1), Num(600), Num(25)>> >>) }

----------------------------------------------------------------------------
(* Operations on the validator. *)

\* validator = DataValidator()
NewValidator ==
    /\ validator' = DataValidator_init
    /\ v_calls' = 0
    /\ v_result' = NoResult
    /\ v_input' = <<>>
    /\ UNCHANGED <<df, stage_vars, app_vars, classifier_vars, loader_vars, processor_vars>>

\* validator.validate_all(d)
validate_all(d) ==
    /\ v_calls < MaxValidateCalls
    /\ LET st == validate_all_run(validator, d)
       IN /\ validator' = st.self
          /\ v_result' = validate_all_outcome(st, d)
    /\ v_input' = d
    /\ v_calls' = v_calls + 1
    /\ UNCHANGED <<df, stage_vars, app_vars, classifier_vars, loader_vars, processor_vars>>

InitValidator ==
    /\ df \in ValidatorFrames \cup TemporalFrames
    /\ validator = DataValidator_init
    /\ v_input = <<>>
    /\ v_result = NoResult
    /\ v_calls = 0
    /\ req_threshold = 0
    /\ classifier = NoClassifier
    /\ first_classify = <<>>
    /\ classify_calls = 0
    /\ recomputed = "none"
    /\ summary = NoSummary
    /\ got = <<>>
    /\ LoaderIdle
    /\ ProcessorIdle
    /\ StagesIdle
    /\ AppIdle

NextValidator ==
    \/ NewValidator
    \/ \E d \in {df} \cup OtherFrames : validate_all(d)

SpecValidator == InitValidator /\ [][NextValidator]_vars

----------------------------------------------------------------------------
(* Frames given to the classifier. *)

ClassifierHours == {7, 8}

ClassifierPowers == {NaN, Num(6), Num(20)}

\* the n-th row lies on day n - 1; the classifier reads hour and power_W only
ClassifierFrames ==
    UNION { { [n \in 1..len |->
                 MkRow(1440 * (n - 1) + 60 * hs[n], Num(30), Num(1), ps[n], Num(25))] :
              hs \in [1..len -> ClassifierHours], ps \in [1..len -> ClassifierPowers] } :
            len \in 1..MaxRowsC }

\* power of the sample_data fixture of test_classifier.py
ScenarioPower(day, hour) ==
    IF 7 <= hour /\ hour <= 17
    THEN (CASE day = 0 -> 40 [] day = 1 -> 15 [] OTHER -> 25)
    ELSE (CASE day = 0 -> 5 [] day = 1 -> 2 [] OTHER -> 3)

\* the fixture: three days of 24 hourly rows, day-major; voltage_V and
\* current_A (power / 20 and power / 40 there) are not read by the
\* classifier and are held at whole values
ScenarioA ==
    [n \in 1..72 |->
        LET day == (n - 1) \div 24
            hour == (n - 1) % 24
        IN MkRow(1440 * day + 60 * hour, Num(2), Num(1),
                 Num(ScenarioPower(day, hour)), Num(25))]

\* threshold arguments, in hundredths: below, inside and above [0.5, 0.9]
ThresholdArgs == {10, 70, 150}

----------------------------------------------------------------------------
(* Operations on the classifier. *)

\* classifier = CloudClassifier(df, threshold)
NewClassifier(threshold) ==
    /\ ~classifier.built
    /\ classifier' = CloudClassifier_init(df, threshold)
    /\ req_threshold' = threshold
    /\ UNCHANGED <<df, stage_vars, app_vars, validator_vars, first_classify, classify_calls, recomputed, summary,
                   got, loader_vars, processor_vars>>

\* classifier.compute_hourly_medians()
compute_hourly_medians ==
    /\ classifier.built
    /\ classifier' = with_medians(classifier)
    /\ recomputed' = IF classifier.classified /\ recomputed = "none" THEN "after"
                     ELSE recomputed
    /\ UNCHANGED <<df, stage_vars, app_vars, validator_vars, req_threshold, first_classify, classify_calls,
                   summary, got, loader_vars, processor_vars>>

\* classifier.classify()
classify ==
    /\ classifier.built
    /\ classify_calls < MaxClassifyCalls
    /\ classifier' = with_classifications(classifier)
    /\ first_classify' = IF classify_calls = 0 THEN classifier'.classifications
                         ELSE first_classify
    /\ classify_calls' = classify_calls + 1
    /\ recomputed' = IF recomputed = "after" THEN "between" ELSE recomputed
    /\ UNCHANGED <<df, stage_vars, app_vars, validator_vars, req_threshold, summary, got, loader_vars,
                   processor_vars>>

\* classifier.get_classification_summary(): classify() runs first when no
\* table is cached
get_classification_summary ==
    /\ classifier.built
    /\ LET self == classified_if_absent(classifier)
       IN /\ classifier' = self
          /\ first_classify' = IF classify_calls = 0 THEN self.classifications
                               ELSE first_classify
          /\ classify_calls' = IF classifier.classified THEN classify_calls
                               ELSE classify_calls + 1
          /\ summary' = summary_of(self.classifications)
    /\ UNCHANGED <<df, stage_vars, app_vars, validator_vars, req_threshold, recomputed, got, loader_vars,
                   processor_vars>>

\* classifier.get_classifications(): classify() runs when no table is
\* cached, and the cached table is returned otherwise
get_classifications ==
    /\ classifier.built
    /\ LET self == classified_if_absent(classifier)
       IN /\ classifier' = self
          /\ first_classify' = IF classify_calls = 0 THEN self.classifications
                               ELSE first_classify
          /\ classify_calls' = IF classifier.classified THEN classify_calls
                               ELSE classify_calls + 1
          /\ got' = self.classifications
    /\ UNCHANGED <<df, stage_vars, app_vars, validator_vars, req_threshold, recomputed, summary, loader_vars,
                   processor_vars>>

InitClassifier ==
    /\ df \in ClassifierFrames \cup {ScenarioA}
    /\ validator = DataValidator_init
    /\ v_input = <<>>
    /\ v_result = NoResult
    /\ v_calls = 0
    /\ req_threshold = 0
    /\ classifier = NoClassifier
    /\ first_classify = <<>>
    /\ classify_calls = 0
    /\ recomputed = "none"
    /\ summary = NoSummary
    /\ got = <<>>
    /\ LoaderIdle
    /\ ProcessorIdle
    /\ StagesIdle
    /\ AppIdle

NextClassifier ==
    \/ \E t \in ThresholdArgs : NewClassifier(t)
    \/ compute_hourly_medians
    \/ classify
    \/ get_classification_summary
    \/ get_classifications

SpecClassifier == InitClassifier /\ [][NextClassifier]_vars

----------------------------------------------------------------------------
(* Operations on the loader. *)

\* loader = DataLoader()
NewLoader ==
    /\ loader' = DataLoader_init
    /\ l_file' = NoFile
    /\ l_result' = NoLoad
    /\ l_calls' = 0
    /\ l_loaded' = NoData
    /\ held' = NotHeld
    /\ UNCHANGED <<df, stage_vars, app_vars, validator_vars, classifier_vars, processor_vars>>

\* loader.load_csv(path of f)
load_csv(f) ==
    /\ l_calls < MaxLoadCalls
    /\ LET out == load_csv_outcome(f)
       IN /\ l_result' = out
          /\ loader' = IF out.status = "returned" THEN [data |-> out.frame] ELSE loader
          /\ l_loaded' = IF out.status = "returned" THEN out.frame ELSE l_loaded
          /\ held' = IF out.status = "returned" THEN HeldObject("loader", out.frame)
                     ELSE held
    /\ l_file' = f
    /\ l_calls' = l_calls + 1
    /\ UNCHANGED <<df, stage_vars, app_vars, validator_vars, classifier_vars, processor_vars>>

\* loader.get_data()
get_data ==
    /\ LET out == get_data_outcome(loader)
       IN /\ l_result' = out
          /\ held' = IF out.status = "returned" THEN HeldObject("copy", out.frame)
                     ELSE held
    /\ UNCHANGED <<df, stage_vars, app_vars, loader, l_file, l_calls, l_loaded, validator_vars,
                   classifier_vars, processor_vars>>

\* the caller changes, in place, the frame it holds; the loader's data
\* changes with it when both are one object
caller_edits_frame ==
    /\ held.obj # "none"
    /\ ~held.edited
    /\ held' = [held EXCEPT !.frame = caller_edit(held.frame), !.edited = TRUE]
    /\ loader' = IF held.obj = "loader" THEN [data |-> caller_edit(held.frame)]
                 ELSE loader
    /\ UNCHANGED <<df, stage_vars, app_vars, l_file, l_result, l_calls, l_loaded, validator_vars,
                   classifier_vars, processor_vars>>

InitLoader ==
    /\ df = <<>>
    /\ ValidatorIdle
    /\ ClassifierIdle
    /\ LoaderIdle
    /\ ProcessorIdle
    /\ StagesIdle
    /\ AppIdle

NextLoader ==
    \/ NewLoader
    \/ \E f \in Files : load_csv(f)
    \/ get_data
    \/ caller_edits_frame

SpecLoader == InitLoader /\ [][NextLoader]_vars

----------------------------------------------------------------------------
(* Frames and hourly tables given to the processor. *)

\* (date, hour) of a generated measurement
ProcessorSlots == {<<0, 7>>, <<0, 8>>, <<1, 7>>}

ProcessorPowers == {NaN, Num(6), Num(20)}

ProcessorFrames ==
    UNION { { [n \in 1..len |->
                 MkRow(1440 * ss[n][1] + 60 * ss[n][2] + n, Num(30), Num(1), ps[n], Num(25))] :
              ss \in [1..len -> ProcessorSlots], ps \in [1..len -> ProcessorPowers] } :
            len \in 1..MaxRowsP }

\* one row of an hourly table a caller passes in
HourlyRow(date, hour, avg, count) ==
    [date |-> date, hour |-> hour, avg_power_W |-> avg, std_power_W |-> QNaN,
     count_measurements |-> count, avg_voltage_V |-> QInt(30),
     avg_current_A |-> QInt(1), avg_temperature_C |-> QInt(25)]

\* (avg_power_W, count_measurements) of a caller's hourly row
HourlyKinds == {<<QInt(40), 4>>, <<QInt(20), 6>>, <<QNaN, 0>>}

\* hourly tables a caller passes in: row n is for hour 6 + n of day 0 or 1
HourlyArgs ==
    UNION { { [n \in 1..len |-> HourlyRow(ds[n], 6 + n, ks[n][1], ks[n][2])] :
              ds \in [1..len -> {0, 1}], ks \in [1..len -> HourlyKinds] } :
            len \in 1..MaxHourlyRows }

\* two hourly rows of one date: averages 40 and 20, counts 4 and 6
ScenarioD == <<HourlyRow(0, 7, QInt(40), 4), HourlyRow(0, 8, QInt(20), 6)>>

\* the frame of the caller that passes its own hourly tables
HourlyCallerFrame ==
    <<MkRow(421, Num(30), Num(1), Num(20), Num(25)),
      MkRow(482, Num(30), Num(1), Num(6), Num(25))>>

HourlyArgsFor(d) == IF d = HourlyCallerFrame THEN HourlyArgs ELSE {ScenarioD}

----------------------------------------------------------------------------
(* Operations on the processor. *)

\* processor = DataProcessor(df)
NewProcessor ==
    /\ processor' = DataProcessor_init(df)
    /\ p_hourly' = <<>>
    /\ UNCHANGED <<df, stage_vars, app_vars, validator_vars, classifier_vars, loader_vars>>

\* processor.compute_hourly_aggregations()
compute_hourly_aggregations ==
    /\ processor.df # <<>>
    /\ processor' = [processor EXCEPT !.hourly_summary = TableOf(hourly_of(processor.df))]
    /\ UNCHANGED <<df, stage_vars, app_vars, p_hourly, validator_vars, classifier_vars, loader_vars>>

\* processor.compute_daily_aggregations(): hourly is None, so the hourly
\* table is computed (and kept) first
compute_daily_aggregations_default ==
    /\ processor.df # <<>>
    /\ LET hourly == hourly_of(processor.df)
       IN /\ processor' = [processor EXCEPT !.hourly_summary = TableOf(hourly),
                                            !.daily_summary = TableOf(daily_of(hourly))]
          /\ p_hourly' = hourly
    /\ UNCHANGED <<df, stage_vars, app_vars, validator_vars, classifier_vars, loader_vars>>

\* processor.compute_daily_aggregations(hourly)
compute_daily_aggregations(hourly) ==
    /\ processor.df # <<>>
    /\ processor' = [processor EXCEPT !.daily_summary = TableOf(daily_of(hourly))]
    /\ p_hourly' = hourly
    /\ UNCHANGED <<df, stage_vars, app_vars, validator_vars, classifier_vars, loader_vars>>

InitProcessor ==
    /\ df \in ProcessorFrames
    /\ ValidatorIdle
    /\ ClassifierIdle
    /\ LoaderIdle
    /\ ProcessorIdle
    /\ StagesIdle
    /\ AppIdle

NextProcessor ==
    \/ NewProcessor
    \/ compute_hourly_aggregations
    \/ compute_daily_aggregations_default
    \/ \E h \in HourlyArgsFor(df) : compute_daily_aggregations(h)

SpecProcessor == InitProcessor /\ [][NextProcessor]_vars

----------------------------------------------------------------------------
(* The analysis of a set whose power is zero throughout: the processor and *)
(* the classifier are both built from the frame, as render_analysis_section *)
(* builds them.                                                            *)

\* well-typed frames in which every power_W is 0
ZeroPowerFrames ==
    UNION { { [n \in 1..len |->
                 MkRow(1440 * ss[n][1] + 60 * ss[n][2] + n, Num(30), Num(1), Num(0), Num(25))] :
              ss \in [1..len -> ProcessorSlots] } :
            len \in 1..MaxRowsC }

\* processor.compute_daily_aggregations(hourly) with the table
\* compute_hourly_aggregations returned
compute_daily_aggregations_of_hourly ==
    /\ processor.hourly_summary.set
    /\ compute_daily_aggregations(processor.hourly_summary.rows)

InitZeroPower ==
    /\ df \in ZeroPowerFrames
    /\ ValidatorIdle
    /\ ClassifierIdle
    /\ LoaderIdle
    /\ ProcessorIdle
    /\ StagesIdle
    /\ AppIdle

NextZeroPower ==
    \/ NewProcessor
    \/ compute_hourly_aggregations
    \/ compute_daily_aggregations_default
    \/ compute_daily_aggregations_of_hourly
    \/ \E t \in ThresholdArgs : NewClassifier(t)
    \/ compute_hourly_medians
    \/ classify
    \/ get_classification_summary
    \/ get_classifications

SpecZeroPower == InitZeroPower /\ [][NextZeroPower]_vars

----------------------------------------------------------------------------
(* A caller that validates one frame and builds two classifiers and two    *)
(* processors from it, calling them in any order.                          *)

\* frames of the caller: rows out of order with one hour on two days, a
\* missing power, and two rows in order
StageFrames ==
    { <<MkRow(1440 + 420, Num(30), Num(1), Num(20), Num(25)),
        MkRow(421, Num(30), Num(1), Num(6), Num(25)),
        MkRow(480, Num(30), Num(1), Num(20), Num(25))>>,
      <<MkRow(420, Num(30), Num(1), NaN, Num(25)),
        MkRow(480, Num(30), Num(1), Num(6), Num(25))>>,
      HourlyCallerFrame }

\* an attribute kept on the class: one value for every object
store_class_level(objs, i, new) == [j \in DOMAIN objs |-> new]

\* self.<attribute> = new on object i: the other objects keep theirs
store(objs, i, new) == [objs EXCEPT ![i] = new]

\* classifiers[i] = CloudClassifier(df, threshold)
NewClassifierAt(i, threshold) ==
    /\ ~classifiers[i].built
    /\ classifiers' = store(classifiers, i, CloudClassifier_init(df, threshold))
    /\ stage_args' = [stage_args EXCEPT ![i] = threshold]
    /\ UNCHANGED <<df, validator_vars, classifier_vars, loader_vars, processor_vars,
                   processors, app_vars>>

\* classifiers[i].compute_hourly_medians()
compute_hourly_medians_at(i) ==
    /\ classifiers[i].built
    /\ classifiers' = store(classifiers, i, with_medians(classifiers[i]))
    /\ UNCHANGED <<df, validator_vars, classifier_vars, loader_vars, processor_vars,
                   processors, stage_args, app_vars>>

\* classifiers[i].classify()
classify_at(i) ==
    /\ classifiers[i].built
    /\ classifiers' = store(classifiers, i, with_classifications(classifiers[i]))
    /\ UNCHANGED <<df, validator_vars, classifier_vars, loader_vars, processor_vars,
                   processors, stage_args, app_vars>>

\* processors[i] = DataProcessor(df)
NewProcessorAt(i) ==
    /\ processors[i].df = <<>>
    /\ processors' = store(processors, i, DataProcessor_init(df))
    /\ UNCHANGED <<df, validator_vars, classifier_vars, loader_vars, processor_vars,
                   classifiers, stage_args, app_vars>>

\* processors[i].compute_hourly_aggregations()
compute_hourly_aggregations_at(i) ==
    /\ processors[i].df # <<>>
    /\ processors' = store(processors, i,
           [processors[i] EXCEPT !.hourly_summary = TableOf(hourly_of(processors[i].df))])
    /\ UNCHANGED <<df, validator_vars, classifier_vars, loader_vars, processor_vars,
                   classifiers, stage_args, app_vars>>

\* processors[i].compute_daily_aggregations()
compute_daily_aggregations_default_at(i) ==
    /\ processors[i].df # <<>>
    /\ LET hourly == hourly_of(processors[i].df)
       IN processors' = store(processors, i,
              [processors[i] EXCEPT !.hourly_summary = TableOf(hourly),
                                    !.daily_summary = TableOf(daily_of(hourly))])
    /\ UNCHANGED <<df, validator_vars, classifier_vars, loader_vars, processor_vars,
                   classifiers, stage_args, app_vars>>

\* processors[i].compute_daily_aggregations(hourly), hourly being the table
\* processors[j].compute_hourly_aggregations() returned
compute_daily_aggregations_at(i, j) ==
    /\ processors[i].df # <<>>
    /\ processors[j].hourly_summary.set
    /\ processors' = store(processors, i,
           [processors[i] EXCEPT
               !.daily_summary = TableOf(daily_of(processors[j].hourly_summary.rows))])
    /\ UNCHANGED <<df, validator_vars, classifier_vars, loader_vars, processor_vars,
                   classifiers, stage_args, app_vars>>

InitStages ==
    /\ df \in StageFrames
    /\ ValidatorIdle
    /\ ClassifierIdle
    /\ LoaderIdle
    /\ ProcessorIdle
    /\ StagesIdle
    /\ AppIdle

NextStages ==
    \/ NewValidator
    \/ validate_all(df)
    \/ \E i \in Instances, t \in ThresholdArgs : NewClassifierAt(i, t)
    \/ \E i \in Instances : compute_hourly_medians_at(i)
    \/ \E i \in Instances : classify_at(i)
    \/ \E i \in Instances : NewProcessorAt(i)
    \/ \E i \in Instances : compute_hourly_aggregations_at(i)
    \/ \E i \in Instances : compute_daily_aggregations_default_at(i)
    \/ \E i, j \in Instances : compute_daily_aggregations_at(i, j)

SpecStages == InitStages /\ [][NextStages]_vars

----------------------------------------------------------------------------
(* The application (app.py).  Every session runs main() in the one server  *)
(* process; a run is the sequence of render_* calls main() makes.  The     *)
(* upload is written to the path temp_upload.csv of the working           *)
(* directory, which all sessions share.                                    *)

\* a well-formed file of min_upload_rows rows, without warnings
CleanFile == MkFile(TRUE, 1024, TRUE, REQUIRED_COLUMNS, min_upload_rows, TRUE)

\* files a user uploads: clean; with one power reading far out of range
\* (warnings only); with voltage and current missing throughout (more than
\* 20 % missing); with a text cell in power_W; with too few rows
AppFiles ==
    { CleanFile,
      [CleanFile EXCEPT !.rows[1]["power_W"] = Num(600)],
      [CleanFile EXCEPT !.rows = [i \in 1..Len(@) |->
                             [@[i] EXCEPT !["voltage_V"] = NaN, !["current_A"] = NaN]]],
      [CleanFile EXCEPT !.rows[1]["power_W"] = Str],
      MkFile(TRUE, 1024, TRUE, REQUIRED_COLUMNS, 3, TRUE) }

\* temp_upload.csv between open(temp_path, "wb") and f.write(...): the
\* path exists and the file is empty, which read_csv rejects
TruncatedFile == MkFile(TRUE, 0, FALSE, <<>>, 0, TRUE)

\* states of temp_upload.csv
AppFileSet == AppFiles \cup {TruncatedFile, NoFile}

\* loader.load_csv(str(file_path)) for each state of the file
LoadOf == [f \in AppFileSet |-> load_csv_outcome(f)]

\* the frames load_csv returns for these files
AppFrames == {LoadOf[f].frame : f \in {g \in AppFileSet : LoadOf[g].status = "returned"}}

\* DataValidator().validate_all(df) for each of these frames
ValidationOf ==
    [d \in AppFrames |->
        validate_all_outcome(validate_all_run(DataValidator_init, d.rows), d.rows)]

\* the try block of render_analysis_section for each frame: a text cell
\* makes the aggregation raise
AnalysisOf ==
    [d \in AppFrames |->
        IF \E c \in {"voltage_V", "current_A", "power_W", "temperature_C"} :
               ColumnHasStr(d.rows, c)
        THEN [raised |-> TRUE, hourly |-> NoTable, daily |-> NoTable,
              df_classified |-> NoTable, classification_summary |-> NoSummary]
        ELSE LET hourly == hourly_of(DataProcessor_init(d.rows).df)
                 classifier_ == with_classifications(
                                    CloudClassifier_init(d.rows, clear_sky_threshold))
             IN [raised |-> FALSE,
                 hourly |-> TableOf(hourly),
                 daily |-> TableOf(daily_of(hourly)),
                 df_classified |-> TableOf(classifier_.classifications),
                 classification_summary |->
                     summary_of(classified_if_absent(classifier_).classifications)]]

\* main() returns: the run of session s is over
RunOver(s) == [app_pc EXCEPT ![s] = "idle"]

\* render_upload_section up to open(temp_path, "wb"), at the start of a run
render_upload_section_open(s) ==
    /\ app_pc[s] = "idle"
    /\ app_runs[s] < MaxAppRuns
    /\ temp_upload' = TruncatedFile
    /\ app_pc' = [app_pc EXCEPT ![s] = "writing"]
    /\ app_run' = [app_run EXCEPT ![s] = NoRun]
    /\ app_runs' = [app_runs EXCEPT ![s] = @ + 1]
    /\ UNCHANGED <<df, validator_vars, classifier_vars, loader_vars, processor_vars,
                   stage_vars, uploaded, session_state>>

\* f.write(uploaded_file.getbuffer()) and the return of temp_path
render_upload_section_write(s) ==
    /\ app_pc[s] = "writing"
    /\ temp_upload' = uploaded[s]
    /\ app_pc' = [app_pc EXCEPT ![s] = "uploaded"]
    /\ UNCHANGED <<df, validator_vars, classifier_vars, loader_vars, processor_vars,
                   stage_vars, uploaded, session_state, app_run, app_runs>>

\* render_validation_section(temp_path), and data_loaded = True of main()
\* when it returns True
render_validation_section(s) ==
    /\ app_pc[s] = "uploaded"
    /\ LET load == LoadOf[temp_upload]
           read == [app_run[s] EXCEPT !.read = TRUE, !.file = temp_upload]
       IN IF load.status = "raised"
          THEN /\ session_state' = session_state
               /\ app_run' = [app_run EXCEPT ![s] = read]
               /\ app_pc' = RunOver(s)
          ELSE LET res == ValidationOf[load.frame]
               IN IF res.status = "raised"
                  THEN /\ session_state' = [session_state EXCEPT ![s].df = load.frame]
                       /\ app_run' = [app_run EXCEPT ![s] = [read EXCEPT !.load_ok = TRUE]]
                       /\ app_pc' = RunOver(s)
                  ELSE /\ session_state' =
                              [session_state EXCEPT
                                  ![s].df = load.frame,
                                  ![s].df_validated = <<res.is_valid>>,
                                  ![s].data_loaded = @ \/ res.is_valid]
                       /\ app_run' = [app_run EXCEPT ![s] =
                              [read EXCEPT !.load_ok = TRUE, !.validated = TRUE,
                                           !.is_valid = res.is_valid]]
                       /\ app_pc' = IF res.is_valid
                                    THEN [app_pc EXCEPT ![s] = "validated"]
                                    ELSE RunOver(s)
    /\ UNCHANGED <<df, validator_vars, classifier_vars, loader_vars, processor_vars,
                   stage_vars, temp_upload, uploaded, app_runs>>

\* render_analysis_section(params); button is what st.button returns
render_analysis_section(s, button) ==
    /\ app_pc[s] = "validated"
    /\ LET state == session_state[s]
       IN IF ~state.data_loaded \/ state.df = NoData \/ ~button
             \/ AnalysisOf[state.df].raised
          THEN /\ app_pc' = RunOver(s)
               /\ UNCHANGED <<session_state, app_run>>
          ELSE /\ session_state' =
                      [session_state EXCEPT
                          ![s].hourly_summary = AnalysisOf[state.df].hourly,
                          ![s].daily_summary = AnalysisOf[state.df].daily,
                          ![s].df_classified = AnalysisOf[state.df].df_classified,
                          ![s].classification_summary =
                              AnalysisOf[state.df].classification_summary]
               /\ app_run' = [app_run EXCEPT ![s].analysed = TRUE]
               /\ app_pc' = [app_pc EXCEPT ![s] = "analysed"]
    /\ UNCHANGED <<df, validator_vars, classifier_vars, loader_vars, processor_vars,
                   stage_vars, temp_upload, uploaded, app_runs>>

\* render_visualizations_section()
render_visualizations_section(s) ==
    /\ app_pc[s] = "analysed"
    /\ app_run' = [app_run EXCEPT ![s].visualised = session_state[s].df # NoData]
    /\ app_pc' = [app_pc EXCEPT ![s] = "visualised"]
    /\ UNCHANGED <<df, validator_vars, classifier_vars, loader_vars, processor_vars,
                   stage_vars, temp_upload, uploaded, session_state, app_runs>>

\* render_export_section(), after which main() returns
render_export_section(s) ==
    /\ app_pc[s] = "visualised"
    /\ app_run' = [app_run EXCEPT ![s].exported = session_state[s].df # NoData]
    /\ app_pc' = RunOver(s)
    /\ UNCHANGED <<df, validator_vars, classifier_vars, loader_vars, processor_vars,
                   stage_vars, temp_upload, uploaded, session_state, app_runs>>

\* two sessions whose users selected different files
InitApp ==
    /\ df = <<>>
    /\ ValidatorIdle
    /\ ClassifierIdle
    /\ LoaderIdle
    /\ ProcessorIdle
    /\ StagesIdle
    /\ temp_upload = NoFile
    /\ uploaded \in {u \in [Sessions -> AppFiles] : u[1] # u[2]}
    /\ app_pc = [s \in Sessions |-> "idle"]
    /\ session_state = [s \in Sessions |-> SessionInit]
    /\ app_run = [s \in Sessions |-> NoRun]
    /\ app_runs = [s \in Sessions |-> 0]

NextApp ==
    \/ \E s \in Sessions : render_upload_section_open(s)
    \/ \E s \in Sessions : render_upload_section_write(s)
    \/ \E s \in Sessions : render_validation_section(s)
    \/ \E s \in Sessions, button \in BOOLEAN : render_analysis_section(s, button)
    \/ \E s \in Sessions : render_visualizations_section(s)
    \/ \E s \in Sessions : render_export_section(s)

SpecApp == InitApp /\ [][NextApp]_vars

----------------------------------------------------------------------------
(* Properties of CloudClassifier, checked under SpecClassifier. *)

Table == classifier.classifications

Rows == 1..Len(Table)

\* C1: every row classify returns carries exactly one of the three labels,
\* and the label follows from the row's power_ratio r and the effective
\* threshold t: r >= t gives CLEAR, 0.5 t <= r < t gives MARGINAL, and
\* r < 0.5 t gives CLOUDY.
C1_LabelRule ==
    classifier.classified =>
        \A i \in Rows :
            LET r == Table[i].power_ratio
                t == classifier.threshold
                label == Table[i].classification
            IN /\ label \in {"CLEAR", "MARGINAL", "CLOUDY"}
               /\ FracGe(r, t, 100) => label = "CLEAR"
               /\ (FracGe(r, t, 200) /\ FracLt(r, t, 100)) => label = "MARGINAL"
               /\ FracLt(r, t, 200) => label = "CLOUDY"
               /\ ~(FracGe(r, t, 100) /\ FracLt(r, t, 200))

\* C1 witness: a classified table in which all three labels occur, CLEAR and
\* MARGINAL decided by a numeric ratio.
C1_Witness ==
    /\ classifier.classified
    /\ \E i \in Rows : Table[i].classification = "CLEAR" /\ ~Table[i].power_ratio.nan
    /\ \E i \in Rows : Table[i].classification = "MARGINAL"
    /\ \E i \in Rows : Table[i].classification = "CLOUDY"

\* C6: the summary's three counts add up to the number of input
\* measurements (classify returns one row per input row), and its three
\* percentages add up to 100 within 0.1.
C6_SummaryTotals ==
    summary.status = "returned" =>
        /\ Len(Table) = Len(df)
        /\ summary.clear_count + summary.marginal_count + summary.cloudy_count = Len(df)
        /\ summary.clear_pct[2] = summary.total
        /\ summary.marginal_pct[2] = summary.total
        /\ summary.cloudy_pct[2] = summary.total
        /\ LET pct_sum == summary.clear_pct[1] + summary.marginal_pct[1]
                            + summary.cloudy_pct[1]
               off == pct_sum - 100 * summary.total
           IN 10 * (IF off < 0 THEN -off ELSE off) <= summary.total

\* C6 witness: a summary was returned in which every label has a count.
C6_Witness ==
    /\ summary.status = "returned"
    /\ summary.clear_count > 0
    /\ summary.marginal_count > 0
    /\ summary.cloudy_count > 0

\* C7 as claimed: every row classify returns has a confidence that is a
\* number between 0 and 1.
C7_ConfidenceInUnitInterval ==
    classifier.classified =>
        \A i \in Rows :
            LET c == Table[i].confidence
            IN /\ ~c.nan
               /\ LLe(LZero, c.num)
               /\ LLe(c.num, c.den)

\* C8: every classify() call on a classifier returns the table its first
\* classify() call returned, whether or not compute_hourly_medians() was
\* called in between.
C8_ClassifyIdempotent ==
    classifier.classified => Table = first_classify

\* C8 witness: classify() ran, compute_hourly_medians() ran after it, and
\* classify() ran again.
C8_Witness ==
    /\ classify_calls >= 2
    /\ recomputed = "between"
    /\ \E i \in Rows : ~Table[i].power_ratio.nan

\* C9: the effective threshold is the requested one clamped to [0.5, 0.9],
\* and construction is possible for every requested threshold.
C9_ThresholdClamped ==
    /\ classifier.built =>
          /\ req_threshold < ThresholdMin => classifier.threshold = ThresholdMin
          /\ req_threshold > ThresholdMax => classifier.threshold = ThresholdMax
          /\ (ThresholdMin <= req_threshold /\ req_threshold <= ThresholdMax)
                => classifier.threshold = req_threshold
          /\ req_threshold = 10 => classifier.threshold = 50
          /\ req_threshold = 150 => classifier.threshold = 90
    /\ ~classifier.built => \A t \in ThresholdArgs : ENABLED NewClassifier(t)

\* C9 witness: a classifier built with threshold 0.1 holds 0.5.
C9_Witness ==
    /\ classifier.built
    /\ req_threshold = 10
    /\ classifier.threshold = ThresholdMin

\* the rows of day n (1, 2 or 3) of Scenario A at the midday hours 7..17
MiddayRows(day) ==
    {i \in Rows : Table[i].date = day - 1 /\ 7 <= Table[i].hour /\ Table[i].hour <= 17}

ScenarioClassified ==
    /\ df = ScenarioA
    /\ classifier.classified
    /\ classifier.threshold = 70

\* the ratio lies within 0.05 of the threshold
NearBoundary(i) ==
    /\ FracGe(Table[i].power_ratio, classifier.threshold - 5, 100)
    /\ FracLt(Table[i].power_ratio, classifier.threshold + 5, 100)

MeasuredAtHour(hour) ==
    {i \in 1..Len(classifier.df) :
        classifier.df[i].hour = hour /\ IsNum(classifier.df[i].power_W)}

\* the k-th smallest power_W among the rows idx (1 <= k <= |idx|)
KthPower(idx, k) ==
    LET v(i) == classifier.df[i].power_W.v
    IN CHOOSE x \in {v(i) : i \in idx} :
           /\ Cardinality({i \in idx : v(i) < x}) < k
           /\ Cardinality({i \in idx : v(i) <= x}) >= k

\* twice the median of power_W over every row of the whole set with the
\* hour, whatever its date; NaN when no such row carries a value
BaselineOfHour2(hour) ==
    LET idx == MeasuredAtHour(hour)
        n == Cardinality(idx)
    IN IF n = 0 THEN NaN
       ELSE Num(KthPower(idx, (n + 1) \div 2) + KthPower(idx, (n \div 2) + 1))

\* C22: the baseline of every classified row is the median of power_W over
\* all rows of the whole set that share its hour-of-day, across all dates,
\* and the cached medians are those of the complete set: no row is
\* labelled against a baseline taken from part of the set.
C22_BaselineOverWholeSet ==
    /\ classifier.classified =>
          /\ Len(Table) = Len(classifier.df)
          /\ \A i \in Rows :
                /\ Table[i].hour = classifier.df[i].hour
                /\ Table[i].median_power_W = BaselineOfHour2(Table[i].hour)
                /\ Table[i].power_ratio
                       = power_ratio(classifier.df[i].power_W, BaselineOfHour2(Table[i].hour))
    /\ classifier.has_medians =>
          \A k \in 1..Len(classifier.hourly_medians) :
              classifier.hourly_medians[k].median_power_W
                  = BaselineOfHour2(classifier.hourly_medians[k].hour)

\* C22 witness: a classified set in which one hour occurs on two dates with
\* different power, so the baseline differs from either date's own value.
C22_Witness ==
    /\ classifier.classified
    /\ \E i, j \in Rows :
          /\ Table[i].hour = Table[j].hour
          /\ Table[i].date < Table[j].date
          /\ IsNum(Table[i].power_W) /\ IsNum(Table[j].power_W)
          /\ Table[i].power_W # Table[j].power_W
          /\ Table[i].median_power_W.v # 2 * Table[i].power_W.v
          /\ Table[i].median_power_W.v # 2 * Table[j].power_W.v

\* a step that took a summary on a classifier: a classifier that was
\* classified keeps its table and no classify() runs; one that was not is
\* classified by exactly one classify(); the summary counts the rows of the
\* table the classifier then holds
SummaryStep ==
    /\ classifier'.classified
    /\ IF classifier.classified
       THEN classifier' = classifier /\ classify_calls' = classify_calls
       ELSE classify_calls' = classify_calls + 1
    /\ summary'.status = "returned"
    /\ summary'.total = Len(classifier'.classifications)
    /\ \A label \in {"CLEAR", "MARGINAL", "CLOUDY"} :
          LET n == Cardinality({i \in 1..Len(classifier'.classifications) :
                                   classifier'.classifications[i].classification = label})
          IN CASE label = "CLEAR" -> summary'.clear_count = n
               [] label = "MARGINAL" -> summary'.marginal_count = n
               [] OTHER -> summary'.cloudy_count = n

\* the same for a step that fetched the table
TableStep ==
    /\ classifier'.classified
    /\ IF classifier.classified
       THEN classifier' = classifier /\ classify_calls' = classify_calls
       ELSE classify_calls' = classify_calls + 1
    /\ got' = classifier'.classifications
    /\ got' # <<>>

\* C23: get_classification_summary can be called on every built
\* classifier; it runs classify() first when classify() has not been
\* called, and otherwise summarises the cached table without recomputing
\* it; get_classifications does the same for the table it returns.
C23_LazyClassification ==
    [][/\ summary' # summary => (classifier.built /\ SummaryStep)
       /\ got' # got => (classifier.built /\ TableStep)
       /\ (summary' # NoSummary \/ got' # <<>>) =>
              (classifier'.classified /\ classify_calls' >= 1)]_vars

\* C23 witness: a summary and a table were taken, on a classifier on which
\* classify() ran once only.
C23_Witness ==
    /\ summary # NoSummary
    /\ got # <<>>
    /\ classify_calls = 1
    /\ summary.total = Len(got)
    /\ summary.clear_count > 0

\* the ratio a / b as a float column value, and the ratio one millionth of
\* 1 / b below it
RatioOf(a, b) == Frac(<<a, 0>>, <<b, 0>>)

RatioBelow(a, b) == Frac(<<a - 1, 999999>>, <<b, 0>>)

\* confidence c is a number below 1; c is exactly 1
ConfBelowOne(c) == ~c.nan /\ ~LLe(c.den, c.num)

ConfIsOne(c) == ~c.nan /\ c.num = c.den

\* the label and confidence classify gives a row of ratio r at threshold t
\* are tied as claimed
LabelConfidenceTied(r, label, c, t) ==
    /\ label = "MARGINAL" => (FracGe(c, 1, 2) /\ ConfBelowOne(c))
    /\ label = "CLOUDY" => FracLt(c, 1, 2)
    /\ ConfIsOne(c) =>
          (label = "CLEAR" /\ LScale(100, r.num) = LScale(t, r.den))

----------------------------------------------------------------------------
(* Properties of DataValidator, checked under SpecValidator. *)

\* what validate_all(d) gives on a validator that has validated nothing
FreshOutcome(d) == validate_all_outcome(validate_all_run(DataValidator_init, d), d)

\* C2: a report is valid exactly when its errors list is empty, whatever
\* its warnings list holds.
C2_ValidIffNoErrors ==
    v_result.status = "returned" =>
        (v_result.is_valid <=> Len(v_result.errors) = 0)

\* C2 witness: a returned report that is valid although it carries warnings.
C2_Witness ==
    /\ v_result.status = "returned"
    /\ v_result.is_valid
    /\ Len(v_result.warnings) > 0

\* C3 as claimed: the data_quality of every valid report lies in [0, 100].
C3_DataQualityInRange ==
    (v_result.status = "returned" /\ v_result.is_valid) =>
        /\ 0 <= v_result.data_quality[1]
        /\ v_result.data_quality[1] <= 100 * v_result.data_quality[2]

\* C4 as claimed: whatever was validated before on the validator, the
\* report of a call equals the report a fresh validator gives on that frame.
C4_NoSideEffect ==
    v_result.status = "returned" => v_result = FreshOutcome(v_input)

\* C5 as claimed: on a frame with text in a numeric column validate_all
\* still returns, with is_valid false and an error naming that column.
C5_ReturnsOnNonNumeric ==
    \A col \in {"voltage_V", "current_A", "power_W", "temperature_C"} :
        (v_calls > 0 /\ ColumnHasStr(v_input, col)) =>
            /\ v_result.status = "returned"
            /\ ~v_result.is_valid
            /\ \E k \in 1..Len(v_result.errors) :
                  v_result.errors[k] = Msg("invalid_data_type", col, 0)

\* the latest call returned a report whose list (errors or warnings) holds
\* exactly one message of the kind for the column, and it carries count n
OneMsg(list, kind, col, n) ==
    /\ Cardinality({k \in 1..Len(list) : list[k].kind = kind /\ list[k].col = col}) = 1
    /\ \E k \in 1..Len(list) : list[k] = Msg(kind, col, n)

NoMsg(list, kind, col) ==
    \A k \in 1..Len(list) : ~(list[k].kind = kind /\ list[k].col = col)

\* rows of d with a number in col below lo or above hi
RowsOutside(d, col, lo, hi) ==
    {i \in 1..Len(d) : IsNum(d[i][col]) /\ (d[i][col].v < lo \/ d[i][col].v > hi)}

\* rows of d above the two physical limits: 96 W, and 1.2 * 58.9 = 70.68 V
RowsAbovePower(d) == {i \in 1..Len(d) : IsNum(d[i].power_W) /\ d[i].power_W.v > 96}

RowsAboveVoltage(d) ==
    {i \in 1..Len(d) : IsNum(d[i].voltage_V) /\ 100 * d[i].voltage_V.v > 7068}

\* the number of (row, rule) pairs of d over the four range rules and the
\* two physical-outlier rules
FlaggedPairs(d) ==
    Cardinality(RowsOutside(d, "voltage_V", 0, 100))
    + Cardinality(RowsOutside(d, "current_A", 0, 10))
    + Cardinality(RowsOutside(d, "power_W", 0, 500))
    + Cardinality(RowsOutside(d, "temperature_C", -20, 80))
    + Cardinality(RowsAbovePower(d))
    + Cardinality(RowsAboveVoltage(d))

\* C11 as claimed: the invalid_rows of the report of a validate_all call is
\* the number of (row, rule) pairs flagged in the frame of that call.
C11_InvalidRowsCountsPairs ==
    v_result.status = "returned" => v_result.invalid_rows = FlaggedPairs(v_input)

\* C12 as claimed: a validate_all call records one warning for the rows
\* above 2 x rated power and one for the rows above 1.2 x Voc exactly when
\* such rows exist, counts them in invalid_rows, and these warnings leave a
\* set without null or text cells valid.
C12_PhysicalOutliers ==
    v_calls > 0 =>
        LET np == Cardinality(RowsAbovePower(v_input))
            nv == Cardinality(RowsAboveVoltage(v_input))
        IN /\ v_result.status = "returned"
           /\ IF np > 0
              THEN OneMsg(v_result.warnings, "exceeds_rated_power", "power_W", np)
              ELSE NoMsg(v_result.warnings, "exceeds_rated_power", "power_W")
           /\ IF nv > 0
              THEN OneMsg(v_result.warnings, "exceeds_voc", "voltage_V", nv)
              ELSE NoMsg(v_result.warnings, "exceeds_voc", "voltage_V")
           /\ v_result.invalid_rows >= np + nv
           /\ NullCells(v_input) = 0 => v_result.is_valid

\* C13 as claimed: for each of the four ranged columns a validate_all call
\* records one warning carrying the number of rows outside the range
\* exactly when there is such a row, counts those rows as outliers, and
\* records no error for them.
C13_RangeAdvisory ==
    v_calls > 0 =>
        /\ v_result.status = "returned"
        /\ \A col \in {"voltage_V", "current_A", "power_W", "temperature_C"} :
              LET n == Cardinality(RowsOutside(v_input, col, VALID_RANGES[col][1],
                                               VALID_RANGES[col][2]))
              IN /\ IF n > 0
                    THEN OneMsg(v_result.warnings, "out_of_range", col, n)
                    ELSE NoMsg(v_result.warnings, "out_of_range", col)
                 /\ NoMsg(v_result.errors, "out_of_range", col)
                 /\ v_result.invalid_rows >= n
        /\ NullCells(v_input) = 0 => v_result.is_valid

\* the timestamps of d are non-decreasing in input order
InOrder(d) == \A i, j \in 1..Len(d) : i < j => d[i].timestamp <= d[j].timestamp

\* two timestamps of d with no timestamp of d strictly between them lie
\* more than an hour apart
HasLargeGap(d) ==
    \E i, j \in 1..Len(d) :
        /\ d[j].timestamp - d[i].timestamp > 60
        /\ \A k \in 1..Len(d) :
              ~(d[i].timestamp < d[k].timestamp /\ d[k].timestamp < d[j].timestamp)

\* C14 as claimed: a validate_all call records the out-of-order warning
\* exactly when the timestamps are not non-decreasing in input order and
\* the large-gap warning exactly when two consecutive sorted timestamps are
\* more than one hour apart (never for a set of fewer than two rows);
\* neither makes the set invalid.
C14_TemporalIntegrity ==
    v_calls > 0 =>
        /\ v_result.status = "returned"
        /\ IF InOrder(v_input)
           THEN NoMsg(v_result.warnings, "not_chronological", "timestamp")
           ELSE OneMsg(v_result.warnings, "not_chronological", "timestamp", 0)
        /\ IF HasLargeGap(v_input)
           THEN OneMsg(v_result.warnings, "large_gap", "timestamp", 0)
           ELSE NoMsg(v_result.warnings, "large_gap", "timestamp")
        /\ Len(v_input) < 2 => NoMsg(v_result.warnings, "large_gap", "timestamp")
        /\ NullCells(v_input) = 0 => v_result.is_valid

\* C15 as claimed: with f the share of null cells over the seven columns, a
\* validate_all call records the missing-data error when f > 20%, the
\* missing-data warning and no such error when 5% < f <= 20%, and neither
\* when f <= 5%.
C15_MissingData ==
    v_calls > 0 =>
        LET nulls == NullCells(v_input)
            cells == 7 * Len(v_input)
            poor == \E k \in 1..Len(v_result.errors) :
                        v_result.errors[k].kind = "missing_data_poor"
            some == \E k \in 1..Len(v_result.warnings) :
                        v_result.warnings[k].kind = "missing_data_some"
        IN /\ v_result.status = "returned"
           /\ 100 * nulls > 20 * cells => (poor /\ ~some /\ ~v_result.is_valid)
           /\ (100 * nulls > 5 * cells /\ 100 * nulls <= 20 * cells) => (some /\ ~poor)
           /\ 100 * nulls <= 5 * cells => (~some /\ ~poor)

----------------------------------------------------------------------------
(* Properties of DataLoader, checked under SpecLoader. *)

\* the latest loader call was load_csv and it raised
LoadRaised == l_result.op = "load_csv" /\ l_result.status = "raised"

\* the file named in the latest load_csv call exists, is within the size
\* ceiling and was parsed by read_csv
Readable(f) == f.exists /\ f.size <= 100 * 1024 * 1024 /\ f.parseable

\* the required columns the header of f lacks
MissingRequired(f) ==
    {"timestamp", "voltage_V", "current_A", "power_W", "temperature_C"}
        \ ColumnSet(f.columns)

\* the fatal load condition a message stands for, in the four classes of
\* the specification (an unparseable timestamp is a parse failure there)
FatalClass(key) ==
    CASE key = "file_not_found" -> "resource-not-found"
      [] key = "file_too_large" -> "resource-too-large"
      [] key = "empty_file" -> "too-few-rows"
      [] OTHER -> "parse-failure-or-missing-columns"

\* C16 as claimed: the kind of the error load_csv raised is raised for no
\* file that fails for a fatal condition of another class, so the kind
\* alone tells the conditions apart.
C16_DistinctKinds ==
    LoadRaised =>
        \A g \in Files :
            LET o == load_csv_outcome(g)
            IN (o.status = "raised" /\ FatalClass(o.key) # FatalClass(l_result.key))
                   => o.kind # l_result.kind

\* C16 amended: load_csv raises FileNotFoundError exactly when the path
\* does not exist and ValueError for every other fatal condition (too
\* large, unreadable, too few rows, missing columns, bad timestamp); only
\* the message tells the latter apart.
C16_KindsAsImplemented ==
    LoadRaised =>
        /\ l_result.kind = "FileNotFoundError" <=> ~l_file.exists
        /\ l_file.exists => l_result.kind = "ValueError"
        /\ l_result.key = "file_not_found" <=> ~l_file.exists
        /\ l_result.key = "file_too_large" => l_file.size > 100 * 1024 * 1024
        /\ l_result.key = "read_error" => ~l_file.parseable
        /\ l_result.key = "empty_file" => Len(l_file.rows) < 100
        /\ l_result.key = "missing_columns" => MissingRequired(l_file) # {}
        /\ l_result.key = "invalid_timestamp" =>
               \E i \in 1..Len(l_file.rows) : ~l_file.rows[i]["timestamp"].ok
        /\ l_result.key \in {"file_not_found", "file_too_large", "read_error",
                             "empty_file", "missing_columns", "invalid_timestamp"}

C16_Witness ==
    /\ LoadRaised
    /\ l_result.kind = "ValueError"
    /\ l_result.key = "file_too_large"
    /\ loader.data # NoData

C18_MissingColumnsListed ==
    (l_result.op = "load_csv" /\ Readable(l_file) /\ MissingRequired(l_file) # {}) =>
        /\ l_result.status = "raised"
        /\ l_result.key = "missing_columns"
        /\ ColumnSet(l_result.missing) = MissingRequired(l_file)
        /\ Len(l_result.missing) = Cardinality(MissingRequired(l_file))

\* C19 as claimed: on a well-formed CSV (all required columns, every
\* timestamp parseable) load_csv returns one row per input row in input
\* order, with the seven columns in order, the values of the file, and the
\* date and hour of each row's timestamp.
C19_WellFormedLoads ==
    (/\ l_result.op = "load_csv"
     /\ Readable(l_file)
     /\ MissingRequired(l_file) = {}
     /\ \A i \in 1..Len(l_file.rows) : l_file.rows[i]["timestamp"].ok) =>
        /\ l_result.status = "returned"
        /\ l_result.frame.columns =
               <<"timestamp", "voltage_V", "current_A", "power_W", "temperature_C",
                 "date", "hour">>
        /\ Len(l_result.frame.rows) = Len(l_file.rows)
        /\ \A i \in 1..Len(l_result.frame.rows) :
              LET r == l_result.frame.rows[i]
                  x == l_file.rows[i]
              IN /\ DOMAIN r = {"timestamp", "voltage_V", "current_A", "power_W",
                                "temperature_C", "date", "hour"}
                 /\ r.voltage_V = x["voltage_V"]
                 /\ r.current_A = x["current_A"]
                 /\ r.power_W = x["power_W"]
                 /\ r.temperature_C = x["temperature_C"]
                 /\ r.date = x["timestamp"].d
                 /\ r.hour = x["timestamp"].hh
                 /\ r.timestamp = 1440 * x["timestamp"].d + 60 * x["timestamp"].hh
                                      + x["timestamp"].mm

----------------------------------------------------------------------------
(* Properties of DataProcessor, checked under SpecProcessor. *)

\* the rows of the latest daily table, and the indexes of the rows of the
\* hourly table it was computed from that carry the date
Daily == processor.daily_summary.rows

HourlyOn(date) ==
    SelectSeq([i \in 1..Len(p_hourly) |-> i], LAMBDA i : p_hourly[i].date = date)

\* sum over the hourly rows idx of count_measurements
CountSum(idx) == SeqSum([j \in 1..Len(idx) |-> p_hourly[idx[j]].count_measurements])

\* the product of the denominators of avg_power_W over the hourly rows
\* idx, and the sum of avg_power_W over them in units of 1 / that product
AvgDen(idx) ==
    LET F[j \in 0..Len(idx)] ==
            IF j = 0 THEN 1 ELSE F[j - 1] * p_hourly[idx[j]].avg_power_W.d
    IN F[Len(idx)]

AvgSum(idx) ==
    SeqSum([j \in 1..Len(idx) |->
               p_hourly[idx[j]].avg_power_W.n
                   * (AvgDen(idx) \div p_hourly[idx[j]].avg_power_W.d)])

\* C20: compute_daily_aggregations returns one row per distinct date of the
\* hourly table; hours_measured is the sum of that date's
\* count_measurements, and for a date whose hourly averages are all
\* present peak_power_W is their maximum, avg_power_W their unweighted
\* mean and energy_Wh = avg_power_W * hours_measured; averages 40 and 20
\* with counts 4 and 6 give peak 40, average 30, 10 hours and energy 300.
C20_DailyAggregation ==
    processor.daily_summary.set =>
        /\ Len(Daily) = Cardinality({p_hourly[i].date : i \in 1..Len(p_hourly)})
        /\ {Daily[k].date : k \in 1..Len(Daily)}
               = {p_hourly[i].date : i \in 1..Len(p_hourly)}
        /\ \A k \in 1..Len(Daily) :
              LET r == Daily[k]
                  idx == HourlyOn(r.date)
              IN /\ r.hours_measured = CountSum(idx)
                 /\ (\A j \in 1..Len(idx) : ~p_hourly[idx[j]].avg_power_W.nan) =>
                       /\ ~r.peak_power_W.nan /\ ~r.avg_power_W.nan /\ ~r.energy_Wh.nan
                       /\ \E j \in 1..Len(idx) :
                              r.peak_power_W = p_hourly[idx[j]].avg_power_W
                       /\ \A j \in 1..Len(idx) :
                              p_hourly[idx[j]].avg_power_W.n * r.peak_power_W.d
                                  <= r.peak_power_W.n * p_hourly[idx[j]].avg_power_W.d
                       /\ r.avg_power_W.n * Len(idx) * AvgDen(idx)
                              = r.avg_power_W.d * AvgSum(idx)
                       /\ r.energy_Wh.n * r.avg_power_W.d
                              = r.avg_power_W.n * r.hours_measured * r.energy_Wh.d
        /\ p_hourly = ScenarioD =>
              /\ Len(Daily) = 1
              /\ Daily[1].peak_power_W = [nan |-> FALSE, n |-> 40, d |-> 1]
              /\ Daily[1].avg_power_W = [nan |-> FALSE, n |-> 30, d |-> 1]
              /\ Daily[1].hours_measured = 10
              /\ Daily[1].energy_Wh = [nan |-> FALSE, n |-> 300, d |-> 1]

C20_Witness ==
    /\ processor.daily_summary.set
    /\ p_hourly = ScenarioD
    /\ Len(Daily) = 1
    /\ Daily[1].hours_measured = 10

\* the rows of the latest hourly table
Hourly == processor.hourly_summary.rows

\* the (date, hour) pairs of the frame the processor holds
PairsOf(d) == {<<d[i].date, d[i].hour>> : i \in 1..Len(d)}

\* the rows of d of one (date, hour) pair, and those with a power_W value
RowsOfPair(d, date, hour) ==
    {i \in 1..Len(d) : d[i].date = date /\ d[i].hour = hour}

MeasuredOfPair(d, date, hour) ==
    {i \in RowsOfPair(d, date, hour) : IsNum(d[i].power_W)}

\* the rearrangements of the rows of d
Rearranged(d) ==
    {[k \in 1..Len(d) |-> d[f[k]]] :
        f \in {g \in [1..Len(d) -> 1..Len(d)] :
                  \A a, b \in 1..Len(d) : a # b => g[a] # g[b]}}

\* one row per (date, hour) pair present, none for an absent pair, rows by
\* date and then hour ascending, whatever the order of the input rows
HourlyKeysAndOrder ==
    /\ Len(Hourly) = Cardinality(PairsOf(processor.df))
    /\ {<<Hourly[k].date, Hourly[k].hour>> : k \in 1..Len(Hourly)} = PairsOf(processor.df)
    /\ \A k \in 1..(Len(Hourly) - 1) :
          \/ Hourly[k].date < Hourly[k + 1].date
          \/ Hourly[k].date = Hourly[k + 1].date /\ Hourly[k].hour < Hourly[k + 1].hour
    /\ \A e \in Rearranged(processor.df) : hourly_of(e) = Hourly

\* C21 as claimed: compute_hourly_aggregations returns one row per
\* (date, hour) pair present, ordered by date and hour whatever the input
\* order, and count_measurements is the number of the group's measurements.
C21_HourlyAsClaimed ==
    processor.hourly_summary.set =>
        /\ HourlyKeysAndOrder
        /\ \A k \in 1..Len(Hourly) :
              Hourly[k].count_measurements
                  = Cardinality(RowsOfPair(processor.df, Hourly[k].date, Hourly[k].hour))

\* C21 amended: as above, but count_measurements is the number of the
\* group's measurements whose power_W is not missing.
C21_HourlyCountsMeasuredPower ==
    processor.hourly_summary.set =>
        /\ HourlyKeysAndOrder
        /\ \A k \in 1..Len(Hourly) :
              Hourly[k].count_measurements
                  = Cardinality(MeasuredOfPair(processor.df, Hourly[k].date, Hourly[k].hour))

C21_Witness ==
    /\ processor.hourly_summary.set
    /\ Len(Hourly) = 2
    /\ processor.df[1].date > processor.df[2].date
    /\ \E i \in 1..Len(processor.df) : IsNull(processor.df[i].power_W)

\* the frame the processor holds has a power_W value in every row
AllMeasured == \A i \in 1..Len(processor.df) : IsNum(processor.df[i].power_W)

\* C28: for a set with no missing date, hour or power_W, the
\* count_measurements of the hourly rows sum to the number of input
\* measurements, and so do the hours_measured of the daily rows computed
\* from that hourly table.
C28_CountsConserved ==
    AllMeasured =>
        /\ processor.hourly_summary.set =>
              SeqSum([k \in 1..Len(Hourly) |-> Hourly[k].count_measurements])
                  = Len(processor.df)
        /\ (processor.hourly_summary.set /\ processor.daily_summary.set
                /\ p_hourly = Hourly) =>
              SeqSum([k \in 1..Len(Daily) |-> Daily[k].hours_measured])
                  = Len(processor.df)

C28_Witness ==
    /\ AllMeasured
    /\ processor.hourly_summary.set
    /\ processor.daily_summary.set
    /\ p_hourly = Hourly
    /\ Len(processor.df) = 2
    /\ Len(Hourly) = 1
    /\ processor.df[1].power_W = processor.df[2].power_W

\* C27 as claimed: get_data raises RuntimeError until a load_csv call has
\* succeeded, and afterwards returns the frame the most recent successful
\* load_csv produced, as it was when loaded, whatever load_csv calls failed
\* since and whatever the caller did to frames it was given earlier.
C27_GetDataAsLoaded ==
    l_result.op = "get_data" =>
        IF l_loaded = NoData
        THEN l_result.status = "raised" /\ l_result.kind = "RuntimeError"
        ELSE l_result.status = "returned" /\ l_result.frame = l_loaded

\* every power_W of frame d is the number 0
AllZeroPower(d) == \A i \in 1..Len(d) : d[i].power_W = Num(0)

\* x is a number in [0, 1]
InUnitInterval(x) == ~x.nan /\ LLe(LZero, x.num) /\ LLe(x.num, x.den) /\ ~LLe(x.den, LZero)

\* the classifier's results for an all-zero set: medians 0, ratio 0 over a
\* non-zero divisor, label CLOUDY, confidence in [0, 1]
ZeroPowerClassified ==
    /\ classifier.has_medians =>
          /\ Len(classifier.hourly_medians) > 0
          /\ \A k \in 1..Len(classifier.hourly_medians) :
                classifier.hourly_medians[k].median_power_W = Num(0)
    /\ classifier.classified =>
          /\ Len(classifier.classifications) = Len(classifier.df)
          /\ \A i \in 1..Len(classifier.classifications) :
                LET r == classifier.classifications[i]
                IN /\ r.median_power_W = Num(0)
                   /\ ~r.power_ratio.nan
                   /\ r.power_ratio.num = LZero
                   /\ ~LLe(r.power_ratio.den, LZero)
                   /\ r.classification = "CLOUDY"
                   /\ InUnitInterval(r.confidence)
    /\ summary # NoSummary =>
          (summary.status = "returned" /\ summary.cloudy_count = summary.total)

\* the processor's results for an all-zero set: every average is 0
ZeroPowerAggregated ==
    /\ processor.hourly_summary.set =>
          /\ Len(Hourly) > 0
          /\ \A k \in 1..Len(Hourly) : Hourly[k].avg_power_W = QInt(0)
    /\ (processor.daily_summary.set /\ p_hourly = Hourly) =>
          /\ Len(Daily) > 0
          /\ \A k \in 1..Len(Daily) :
                /\ Daily[k].avg_power_W = QInt(0)
                /\ Daily[k].peak_power_W = QInt(0)
                /\ Daily[k].energy_Wh = QInt(0)

\* C24: on a well-typed set in which every power_W is 0, hourly and daily
\* aggregation and classify complete: each hour's median is 0, power_ratio
\* is 0 over a non-zero divisor, and every row is labelled CLOUDY with a
\* confidence in [0, 1].
C24_ZeroPowerCompletes ==
    AllZeroPower(df) =>
        /\ classifier.built => ZeroPowerClassified
        /\ processor.df # <<>> => ZeroPowerAggregated

\* C24 witness: a zero-power set of two days was aggregated by hour and by
\* day and classified, and the summary was taken.
C24_Witness ==
    /\ AllZeroPower(df) /\ Len(df) = 3
    /\ classifier.classified /\ summary # NoSummary /\ summary.cloudy_count = 3
    /\ processor.hourly_summary.set /\ processor.daily_summary.set
    /\ p_hourly = Hourly /\ Len(Daily) = 2

\* what classifier i holds is what a classifier built alone from frame d
\* with the same threshold argument holds after the same calls
ClassifierAlone(i, d) ==
    LET alone == CloudClassifier_init(d, stage_args[i])
    IN classifiers[i].built =>
          /\ classifiers[i].df = d
          /\ classifiers[i].threshold = alone.threshold
          /\ classifiers[i].has_medians =>
                classifiers[i].hourly_medians = with_medians(alone).hourly_medians
          /\ classifiers[i].classified =>
                classifiers[i].classifications
                    = with_classifications(alone).classifications

\* the same for processor i
ProcessorAlone(i, d) ==
    processors[i].df # <<>> =>
        /\ processors[i].df = d
        /\ processors[i].hourly_summary.set =>
              processors[i].hourly_summary.rows = hourly_of(d)
        /\ processors[i].daily_summary.set =>
              processors[i].daily_summary.rows = daily_of(hourly_of(d))

StagesAlone ==
    \A i \in Instances : ClassifierAlone(i, df) /\ ProcessorAlone(i, df)

\* C25: after any sequence of validate_all, compute_hourly_aggregations,
\* compute_daily_aggregations, compute_hourly_medians and classify calls
\* the caller's frame is the frame that was passed in, and each of two
\* classifiers and two processors built from it holds the results it
\* would hold if it had been run alone.
C25_StagesIsolated ==
    /\ v_calls > 0 => (v_result.status # "none" /\ df = v_input)
    /\ StagesAlone

\* C25 witness: the frame was validated, both classifiers classified it
\* with thresholds that label it differently, and both processors
\* aggregated it, the second one from the first one's hourly table.
C25_Witness ==
    /\ v_calls > 0
    /\ \A i \in Instances : classifiers[i].classified
    /\ classifiers[1].classifications # classifiers[2].classifications
    /\ \A i \in Instances : processors[i].daily_summary.set
    /\ processors[1].hourly_summary.set /\ ~processors[2].hourly_summary.set

\* the frame load_csv makes of the file session s uploaded, NoData when
\* load_csv rejects it
OwnFrame(s) == LoadOf[uploaded[s]].frame

\* the file session s uploaded loads and validate_all calls it valid
OwnFileValid(s) ==
    /\ LoadOf[uploaded[s]].status = "returned"
    /\ ValidationOf[OwnFrame(s)].status = "returned"
    /\ ValidationOf[OwnFrame(s)].is_valid

\* C30 as claimed: whatever the interleaving of the upload, load and
\* validate steps of two sessions that upload different files, the file a
\* session loads, and the frame it validates and analyses, are those of
\* the file this session uploaded.
C30_SessionsLoadOwnFile ==
    \A s \in Sessions :
        /\ app_run[s].read => app_run[s].file = uploaded[s]
        /\ session_state[s].df \in {NoData, OwnFrame(s)}
        /\ app_run[s].analysed =>
              session_state[s].df_classified = AnalysisOf[OwnFrame(s)].df_classified

\* C26 as claimed: in a run, aggregation and classification ran only if
\* the load succeeded and validate_all returned is_valid = true for the
\* uploaded file; visualisation and export ran only after the analysis;
\* after a load error or a validation error none of them ran; and a
\* validation that found no error, warnings or not, did not end the run.
C26_FatalAborts ==
    \A s \in Sessions :
        /\ app_run[s].analysed =>
              (app_run[s].load_ok /\ app_run[s].is_valid /\ OwnFileValid(s))
        /\ app_run[s].visualised => app_run[s].analysed
        /\ app_run[s].exported => app_run[s].visualised
        /\ (app_run[s].read /\ ~(app_run[s].load_ok /\ app_run[s].is_valid)) =>
              (~app_run[s].analysed /\ ~app_run[s].visualised /\ ~app_run[s].exported
                /\ app_pc[s] = "idle")
        /\ (app_run[s].validated
                /\ ValidationOf[session_state[s].df].errors = <<>>) =>
              app_run[s].is_valid

====
